---- MODULE Spec2Model ----
(***************************************************************************)
(* Model of the gofsm hierarchical finite state machine engine:            *)
(* StateInfo / Structure (static hierarchy), ContextStack (scoped          *)
(* storage) and Fsm (Advance / Run / Reset / Result).                      *)
(***************************************************************************)
EXTENDS Integers, Sequences, FiniteSets, TLC

(***************************************************************************)
(* Program constants                                                       *)
(***************************************************************************)
FsmGlobalStateName == "global"
FsmResultCtxMemberName == "result"
FsmAutoStatesCount == 1

(***************************************************************************)
(* Bounds of the model                                                     *)
(***************************************************************************)
\* Advance and Run are explored while the history holds at most this many items
MaxHistory == 5

(***************************************************************************)
(* Null markers (Go nil pointer, absent map key, nil ActionFn)             *)
(***************************************************************************)
NoState == "<nil>"
NoValue == "<absent>"
NoAction == [kind |-> "nil", key |-> "", value |-> ""]

\* Keys and values stored in contexts by the modelled callbacks
Keys == {FsmResultCtxMemberName, "k"}
Values == {"a", "b"}

(***************************************************************************)
(* Errors (FsmError: kind + description).  The fatal wrapper embeds the    *)
(* cause, the stack dump and the history dump in its description.          *)
(***************************************************************************)
NilErr == [kind |-> "nil", description |-> "", inner |-> "", stack |-> <<>>, history |-> <<>>]

FsmError(kind, description) ==
    [kind |-> kind, description |-> description, inner |-> "", stack |-> <<>>, history |-> <<>>]

newCtxErrorKeyNotFound(key) == FsmError("ErrCtxKeyNotFound", key)
newFsmErrorStateAlreadyExists(name) == FsmError("ErrStateAlreadyExists", name)
newFsmErrorStateIsInvalid(cause) == FsmError("ErrStateIsInvalid", cause)
newFsmErrorTransitionIsInvalid(cause) == FsmError("ErrStateIsInvalid", cause)
newFsmErrorWrongFlow(action, fsm_state) ==
    FsmError("ErrFsmWrongFlow", "Can't " \o action \o " while FSM is " \o fsm_state)
newFsmErrorInvalid(cause) == FsmError("ErrFsmIsInvalid", cause)
newFsmErrorRuntime(cause) == FsmError("ErrFsmRuntime", cause)
newFsmErrorCallbackFailed(who) == FsmError("ErrFsmCallbackFailed", who)

newFsmErrorInFatalState(cause, stack, history) ==
    [kind |-> "ErrFsmInFatalState", description |-> cause.description,
     inner |-> cause.kind, stack |-> stack, history |-> history]

(***************************************************************************)
(* Context: key -> value store of one scope                                *)
(***************************************************************************)
newContext == [k \in Keys |-> NoValue]

ContextPut(ctx, key, value) == [ctx EXCEPT ![key] = value]

ContextHas(ctx, key) == ctx[key] # NoValue

\* Context.Raw: value and error (key not found)
ContextRaw(ctx, key) ==
    IF ctx[key] # NoValue
    THEN [value |-> ctx[key], err |-> NilErr]
    ELSE [value |-> NoValue, err |-> newCtxErrorKeyNotFound(key)]

(***************************************************************************)
(* ContextStack: sequence of StateContext, bottom (root) first             *)
(***************************************************************************)
newStateContext(state) == [state |-> state, context |-> newContext]

newContextStack == <<>>

Depth(st) == Len(st)

Empty(st) == Depth(st) <= 0

\* Peek is only used on non-empty stacks by the Fsm
Peek(st) == st[Len(st)]

Global(st) == st[1]

Pop(st) == IF Empty(st) THEN st ELSE SubSeq(st, 1, Len(st) - 1)

\* Push that accepts the state already at the head
PushDuplicate(st, state) ==
    IF state = NoState
    THEN [stack |-> st, ok |-> FALSE]
    ELSE [stack |-> Append(st, newStateContext(state)), ok |-> TRUE]

\* Push: refuses nil and the state already at the head; ok = FALSE is the nil return
Push(st, state) ==
    IF state = NoState
    THEN [stack |-> st, ok |-> FALSE]
    ELSE IF ~Empty(st) /\ Peek(st).state = state
    THEN [stack |-> st, ok |-> FALSE]
    ELSE [stack |-> Append(st, newStateContext(state)), ok |-> TRUE]

\* ContextStack.Raw: scan from the head towards the root
RECURSIVE StackRawFrom(_, _, _)
StackRawFrom(st, key, idx) ==
    IF idx < 1
    THEN [value |-> NoValue, err |-> newCtxErrorKeyNotFound(key)]
    ELSE IF ContextRaw(st[idx].context, key).err = NilErr
    THEN ContextRaw(st[idx].context, key)
    ELSE StackRawFrom(st, key, idx - 1)

\* lookup that scans the scopes from the root towards the head
RECURSIVE StackRawUpFrom(_, _, _)
StackRawUpFrom(st, key, idx) ==
    IF idx > Len(st)
    THEN [value |-> NoValue, err |-> newCtxErrorKeyNotFound(key)]
    ELSE IF ContextRaw(st[idx].context, key).err = NilErr
    THEN ContextRaw(st[idx].context, key)
    ELSE StackRawUpFrom(st, key, idx + 1)

StackRawRootFirst(st, key) ==
    IF Empty(st)
    THEN [value |-> NoValue, err |-> newCtxErrorKeyNotFound(key)]
    ELSE StackRawUpFrom(st, key, 1)

StackRaw(st, key) ==
    IF Empty(st)
    THEN [value |-> NoValue, err |-> newCtxErrorKeyNotFound(key)]
    ELSE StackRawFrom(st, key, Len(st))

StackHas(st, key) == StackRaw(st, key).err = NilErr

\* Put that writes the outermost scope
StackPutToRoot(st, key, value) ==
    IF Empty(st)
    THEN [stack |-> st, err |-> newFsmErrorRuntime("Can't put to empty context stack")]
    ELSE [stack |-> [st EXCEPT ![1].context = ContextPut(@, key, value)], err |-> NilErr]

\* ContextStack.Put writes the head scope
StackPut(st, key, value) ==
    IF Empty(st)
    THEN [stack |-> st, err |-> newFsmErrorRuntime("Can't put to empty context stack")]
    ELSE [stack |-> [st EXCEPT ![Len(st)].context = ContextPut(@, key, value)], err |-> NilErr]

\* PutResult that writes the head scope
StackPutResultToHead(st, result) ==
    IF Empty(st)
    THEN [stack |-> st, err |-> newFsmErrorRuntime("Can't put to empty context stack")]
    ELSE [stack |-> [st EXCEPT ![Len(st)].context = ContextPut(@, FsmResultCtxMemberName, result)],
          err |-> NilErr]

\* ContextStack.PutResult writes the "result" key of the outermost scope
StackPutResult(st, result) ==
    IF Empty(st)
    THEN [stack |-> st, err |-> newFsmErrorRuntime("Can't put to empty context stack")]
    ELSE [stack |-> [st EXCEPT ![1].context = ContextPut(@, FsmResultCtxMemberName, result)],
          err |-> NilErr]

(***************************************************************************)
(* Guards and actions.  GuardFn and ActionFn are user callbacks; they are  *)
(* modelled by descriptors interpreted against the stack.                  *)
(*   guard  "always"  : returns (true, nil)                                *)
(*          "never"   : returns (false, nil)                               *)
(*          "fail"    : returns (false, error)                             *)
(*          "context" : the JSON context guard, key == value               *)
(*   action "put"     : ctx.Put(key, value); return nil                    *)
(*          "result"  : ctx.PutResult(value); return nil                   *)
(*          "fail"    : return error                                       *)
(*          "putfail" : ctx.Put(key, value); return error                  *)
(***************************************************************************)
GuardAlways == [type |-> "always", key |-> "", value |-> ""]
GuardNever == [type |-> "never", key |-> "", value |-> ""]
GuardFail == [type |-> "fail", key |-> "", value |-> ""]
GuardContext(key, value) == [type |-> "context", key |-> key, value |-> value]
NoGuard == [type |-> "nil", key |-> "", value |-> ""]

ActionPut(key, value) == [kind |-> "put", key |-> key, value |-> value]
ActionResult(value) == [kind |-> "result", key |-> FsmResultCtxMemberName, value |-> value]
ActionFail == [kind |-> "fail", key |-> "", value |-> ""]
ActionPutFail(key, value) == [kind |-> "putfail", key |-> key, value |-> value]

\* Guard(&fsm.stack): open flag and error flag
EvalGuard(guard, st) ==
    CASE guard.type = "always" -> [open |-> TRUE, err |-> FALSE]
      [] guard.type = "never" -> [open |-> FALSE, err |-> FALSE]
      [] guard.type = "fail" -> [open |-> FALSE, err |-> TRUE]
      [] OTHER ->
            LET raw == StackRaw(st, guard.key)
            IN  IF raw.err # NilErr
                THEN [open |-> FALSE, err |-> TRUE]
                ELSE [open |-> (guard.value = raw.value), err |-> FALSE]

\* Action(&fsm.stack): the stack after the callback and its error flag
RunAction(action, st) ==
    CASE action.kind = "put" ->
            [stack |-> StackPut(st, action.key, action.value).stack, err |-> FALSE]
      [] action.kind = "result" ->
            [stack |-> StackPutResult(st, action.value).stack, err |-> FALSE]
      [] action.kind = "putfail" ->
            [stack |-> StackPut(st, action.key, action.value).stack, err |-> TRUE]
      [] OTHER -> [stack |-> st, err |-> TRUE]

(***************************************************************************)
(* Transition                                                              *)
(***************************************************************************)
NewTransition(name, to, cond, action) ==
    [Name |-> name, ToState |-> to, Guard |-> cond, Action |-> action]

NewTransitionAlways(name, to, action) ==
    << NewTransition(name, to, GuardAlways, action) >>

\* Transition.Validate
TransitionValidate(tr) ==
    IF tr.Name = "" THEN newFsmErrorTransitionIsInvalid("transition should be named")
    ELSE IF tr.ToState = "" THEN newFsmErrorTransitionIsInvalid("transition should have proper destination")
    ELSE IF tr.Guard = NoGuard THEN newFsmErrorTransitionIsInvalid("condition has to be present")
    ELSE NilErr

(***************************************************************************)
(* StateInfo.  Pointers to StateInfo are state names: the Structure's      *)
(* table is the heap (names are unique in the table).                      *)
(***************************************************************************)
NewState(name, transitions) ==
    [Name |-> name, Parent |-> NoState, StartSubState |-> NoState, Transitions |-> transitions]

\* StateInfo.Final
Final(si) == Len(si.Transitions) <= 0

\* make_path of findCommonAncestor: the parent chain, root first
RECURSIVE make_path(_, _)
make_path(states, state) ==
    IF states[state].Parent = NoState
    THEN << state >>
    ELSE Append(make_path(states, states[state].Parent), state)

\* index of the last position at which both paths agree from the root (0: none)
RECURSIVE CommonPrefix(_, _, _)
CommonPrefix(lhs_path, rhs_path, idx) ==
    IF idx > Len(lhs_path) \/ idx > Len(rhs_path) \/ lhs_path[idx] # rhs_path[idx]
    THEN idx - 1
    ELSE CommonPrefix(lhs_path, rhs_path, idx + 1)

\* findCommonAncestor that returns the root of the common tree
findCommonAncestorRoot(states, lhs, rhs) ==
    IF lhs = rhs
    THEN [ancestor |-> lhs, depth_diff |-> 0]
    ELSE [ancestor |-> IF CommonPrefix(make_path(states, lhs), make_path(states, rhs), 1) = 0
                       THEN NoState ELSE make_path(states, lhs)[1],
          depth_diff |-> Len(make_path(states, lhs)) - Len(make_path(states, rhs))]

findCommonAncestor(states, lhs, rhs) ==
    IF lhs = rhs
    THEN [ancestor |-> lhs, depth_diff |-> 0]
    ELSE LET lhs_path == make_path(states, lhs)
             rhs_path == make_path(states, rhs)
             n == CommonPrefix(lhs_path, rhs_path, 1)
         IN  [ancestor |-> IF n = 0 THEN NoState ELSE lhs_path[n],
              depth_diff |-> Len(lhs_path) - Len(rhs_path)]

\* StateInfo.checkHierarchyCycled: walk the parent links, remember the names seen.
\* A parent that is not in the table is a state a loader made and has not stored:
\* its own chain has no cycle, a loader links a state only to one made before it.
RECURSIVE checkHierarchyCycledFrom(_, _, _)
checkHierarchyCycledFrom(states, si, visited) ==
    IF si = NoState \/ si \notin DOMAIN states THEN FALSE
    ELSE IF si \in visited THEN TRUE
    ELSE checkHierarchyCycledFrom(states, states[si].Parent, visited \cup {si})

checkHierarchyCycled(states, si) == checkHierarchyCycledFrom(states, si, {})

\* first failing transition of a list, in order
RECURSIVE TransitionsValidate(_, _)
TransitionsValidate(trs, idx) ==
    IF idx > Len(trs) THEN NilErr
    ELSE IF TransitionValidate(trs[idx]) # NilErr THEN TransitionValidate(trs[idx])
    ELSE TransitionsValidate(trs, idx + 1)

\* StateInfo.Validate
StateValidate(states, si) ==
    IF states[si].Name = "" THEN newFsmErrorStateIsInvalid("state should be named")
    ELSE IF checkHierarchyCycled(states, si) THEN newFsmErrorStateIsInvalid("state hierarchy is cycled")
    ELSE IF ~Final(states[si]) THEN TransitionsValidate(states[si].Transitions, 1)
    ELSE NilErr

\* addSubState without the check of the start substate the parent already has
addSubStateWithoutStartCheck(states, si, sub, start) ==
    IF states[sub].Parent # NoState
    THEN [states |-> states, err |-> newFsmErrorStateIsInvalid("Sub state already has a parent")]
    ELSE IF ~start
    THEN [states |-> [states EXCEPT ![sub].Parent = si], err |-> NilErr]
    ELSE IF Len(states[si].Transitions) > 0
    THEN [states |-> [states EXCEPT ![sub].Parent = si, ![si].StartSubState = sub],
          err |-> newFsmErrorStateIsInvalid("Start transition can't be used on parent with transitions defined")]
    ELSE [states |-> [states EXCEPT ![sub].Parent = si, ![si].StartSubState = sub,
                        ![si].Transitions =
                            NewTransitionAlways("Always " \o si \o "->" \o sub, sub, NoAction)],
          err |-> NilErr]

\* StateInfo.addSubState on the table: links sub under parent si
addSubState(states, si, sub, start) ==
    IF states[sub].Parent # NoState
    THEN [states |-> states, err |-> newFsmErrorStateIsInvalid("Sub state already has a parent")]
    ELSE IF start /\ states[si].StartSubState # NoState
    THEN [states |-> states,
          err |-> newFsmErrorStateIsInvalid("Parent state already has start sub state defined")]
    ELSE LET linked == [states EXCEPT ![sub].Parent = si]
         IN  IF ~start
             THEN [states |-> linked, err |-> NilErr]
             ELSE LET marked == [linked EXCEPT ![si].StartSubState = sub]
                  IN  IF Len(states[si].Transitions) > 0
                      THEN [states |-> marked,
                            err |-> newFsmErrorStateIsInvalid("Start transition can't be used on parent with transitions defined")]
                      ELSE [states |-> [marked EXCEPT ![si].Transitions =
                                          NewTransitionAlways("Always " \o si \o "->" \o sub, sub, NoAction)],
                            err |-> NilErr]

(***************************************************************************)
(* Structure: state table plus the synthetic root state                    *)
(***************************************************************************)
\* StateInfo.Validate of an object about to be registered under its name
NewStateValidate(states, state) ==
    StateValidate((state.Name :> state) @@ states, state.Name)

\* addStateImpl without the lookup of the name in the table: the new state
\* replaces the one registered under its name
addStateImplWithoutDuplicateCheck(fstr, state, parent, start, autoAdopt) ==
    IF state.Name = NoState
    THEN [fstr |-> fstr, err |-> newFsmErrorStateIsInvalid("state is nil")]
    ELSE IF fstr.start = NoState
    THEN [fstr |-> fstr, err |-> newFsmErrorInvalid("global state is not defined")]
    ELSE IF start /\ parent = NoState /\ fstr.start \in DOMAIN fstr.states
            /\ ~Final(fstr.states[fstr.start])
    THEN [fstr |-> fstr, err |-> newFsmErrorInvalid("start state is already set")]
    ELSE IF start /\ autoAdopt /\ parent # NoState /\ parent \in DOMAIN fstr.states
            /\ Len(fstr.states[parent].Transitions) > 0
    THEN [fstr |-> fstr, err |-> newFsmErrorInvalid("parent should not have transitions")]
    ELSE IF NewStateValidate(fstr.states, state) # NilErr
    THEN [fstr |-> fstr, err |-> NewStateValidate(fstr.states, state)]
    ELSE LET added == (state.Name :> state) @@ fstr.states
         IN  IF ~autoAdopt
             THEN [fstr |-> [fstr EXCEPT !.states = added], err |-> NilErr]
             ELSE IF parent = NoState
             THEN LET r == addSubState(added, fstr.start, state.Name, start)
                  IN  [fstr |-> [fstr EXCEPT !.states = r.states], err |-> r.err]
             ELSE IF parent \notin DOMAIN added
             THEN [fstr |-> [fstr EXCEPT !.states = added],
                   err |-> newFsmErrorInvalid("Parent state was not found (forgot to add?)")]
             ELSE LET r == addSubState(added, parent, state.Name, start)
                  IN  [fstr |-> [fstr EXCEPT !.states = r.states], err |-> r.err]

\* addStateImpl without the case "start state is already set": a second
\* top-level start state goes on to the adoption by the root
addStateImplWithoutStartCheck(fstr, state, parent, start, autoAdopt) ==
    IF state.Name = NoState
    THEN [fstr |-> fstr, err |-> newFsmErrorStateIsInvalid("state is nil")]
    ELSE IF fstr.start = NoState
    THEN [fstr |-> fstr, err |-> newFsmErrorInvalid("global state is not defined")]
    ELSE IF start /\ autoAdopt /\ parent # NoState /\ parent \in DOMAIN fstr.states
            /\ Len(fstr.states[parent].Transitions) > 0
    THEN [fstr |-> fstr, err |-> newFsmErrorInvalid("parent should not have transitions")]
    ELSE IF NewStateValidate(fstr.states, state) # NilErr
    THEN [fstr |-> fstr, err |-> NewStateValidate(fstr.states, state)]
    ELSE IF state.Name \in DOMAIN fstr.states
    THEN [fstr |-> fstr, err |-> newFsmErrorStateAlreadyExists(state.Name)]
    ELSE LET added == (state.Name :> state) @@ fstr.states
         IN  IF ~autoAdopt
             THEN [fstr |-> [fstr EXCEPT !.states = added], err |-> NilErr]
             ELSE IF parent = NoState
             THEN LET r == addSubState(added, fstr.start, state.Name, start)
                  IN  [fstr |-> [fstr EXCEPT !.states = r.states], err |-> r.err]
             ELSE IF parent \notin DOMAIN added
             THEN [fstr |-> [fstr EXCEPT !.states = added],
                   err |-> newFsmErrorInvalid("Parent state was not found (forgot to add?)")]
             ELSE LET r == addSubState(added, parent, state.Name, start)
                  IN  [fstr |-> [fstr EXCEPT !.states = r.states], err |-> r.err]

\* Structure.addStateImpl; parent is a state name or NoState (nil)
addStateImpl(fstr, state, parent, start, autoAdopt) ==
    IF state.Name = NoState
    THEN [fstr |-> fstr, err |-> newFsmErrorStateIsInvalid("state is nil")]
    ELSE IF fstr.start = NoState
    THEN [fstr |-> fstr, err |-> newFsmErrorInvalid("global state is not defined")]
    ELSE IF start /\ parent = NoState /\ fstr.start \in DOMAIN fstr.states
            /\ ~Final(fstr.states[fstr.start])
    THEN [fstr |-> fstr, err |-> newFsmErrorInvalid("start state is already set")]
    ELSE IF start /\ autoAdopt /\ parent # NoState /\ parent \in DOMAIN fstr.states
            /\ Len(fstr.states[parent].Transitions) > 0
    THEN [fstr |-> fstr, err |-> newFsmErrorInvalid("parent should not have transitions")]
    ELSE IF NewStateValidate(fstr.states, state) # NilErr
    THEN [fstr |-> fstr, err |-> NewStateValidate(fstr.states, state)]
    ELSE IF state.Name \in DOMAIN fstr.states
    THEN [fstr |-> fstr, err |-> newFsmErrorStateAlreadyExists(state.Name)]
    ELSE LET added == (state.Name :> state) @@ fstr.states
         IN  IF ~autoAdopt
             THEN [fstr |-> [fstr EXCEPT !.states = added], err |-> NilErr]
             ELSE IF parent = NoState
             THEN LET r == addSubState(added, fstr.start, state.Name, start)
                  IN  [fstr |-> [fstr EXCEPT !.states = r.states], err |-> r.err]
             ELSE IF parent \notin DOMAIN added
             THEN [fstr |-> [fstr EXCEPT !.states = added],
                   err |-> newFsmErrorInvalid("Parent state was not found (forgot to add?)")]
             ELSE LET r == addSubState(added, parent, state.Name, start)
                  IN  [fstr |-> [fstr EXCEPT !.states = r.states], err |-> r.err]

\* NewStructure: the table holds the root state "global" only
NewStructure ==
    addStateImpl([states |-> << >>, start |-> FsmGlobalStateName],
                 NewState(FsmGlobalStateName, << >>), NoState, TRUE, FALSE).fstr

AddStartState(fstr, state, parent) == addStateImpl(fstr, state, parent, TRUE, TRUE)

AddState(fstr, state, parent) == addStateImpl(fstr, state, parent, FALSE, TRUE)

\* the AddState loop of AddStates: stops at the first error
RECURSIVE AddStatesLoop(_, _, _, _)
AddStatesLoop(fstr, parent, states, idx) ==
    IF idx > Len(states) THEN [fstr |-> fstr, err |-> NilErr]
    ELSE LET r == AddState(fstr, states[idx], parent)
         IN  IF r.err # NilErr THEN r ELSE AddStatesLoop(r.fstr, parent, states, idx + 1)

\* Structure.AddStates; start is a StateInfo or NewState(NoState, <<>>) for nil
AddStates(fstr, parent, start, states) ==
    IF start.Name # NoState
    THEN LET r == AddStartState(fstr, start, parent)
         IN  IF r.err # NilErr THEN r ELSE AddStatesLoop(r.fstr, parent, states, 1)
    ELSE AddStatesLoop(fstr, parent, states, 1)

\* MakeStructure: the error of AddStates is dropped
MakeStructure(parent, start, states) == AddStates(NewStructure, parent, start, states).fstr

\* first problem Structure.Validate finds in the transitions of state s, in order
RECURSIVE ValidateTransitions(_, _, _)
ValidateTransitions(fstr, s, idx) ==
    LET trs == fstr.states[s].Transitions
    IN  IF idx > Len(trs) THEN NilErr
        ELSE IF trs[idx].ToState \notin DOMAIN fstr.states
        THEN newFsmErrorInvalid("transition has unknown destination")
        ELSE IF findCommonAncestor(fstr.states, s, trs[idx].ToState).ancestor = NoState
        THEN newFsmErrorInvalid("states don't have a common parent")
        ELSE ValidateTransitions(fstr, s, idx + 1)

\* body of the loop over the table in Structure.Validate, for one state
ValidateState(fstr, s) ==
    IF StateValidate(fstr.states, s) # NilErr
    THEN StateValidate(fstr.states, s)
    ELSE ValidateTransitions(fstr, s, 1)

\* names marked as referenced: the root and every transition target
StateRefs(fstr) ==
    {fstr.start} \cup
    UNION {{fstr.states[s].Transitions[i].ToState : i \in 1..Len(fstr.states[s].Transitions)} :
              s \in DOMAIN fstr.states}

\* Validate without the search for states that no transition refers to
ValidateErrorsWithoutDeadStates(fstr) ==
    {ValidateState(fstr, s) : s \in DOMAIN fstr.states} \ {NilErr}

\* Structure.Validate: the errors it can return (the table is iterated in an
\* unspecified order, so the first failing state varies); {} when it succeeds
ValidateErrors(fstr) ==
    LET failing == {ValidateState(fstr, s) : s \in DOMAIN fstr.states} \ {NilErr}
    IN  IF failing # {} THEN failing
        ELSE IF (DOMAIN fstr.states) \ StateRefs(fstr) # {}
        THEN {newFsmErrorInvalid("there are isolated states")}
        ELSE {}

\* the values Structure.Validate can return, nil included
Validate(fstr) == IF ValidateErrors(fstr) = {} THEN {NilErr} ELSE ValidateErrors(fstr)

\* body of the loop of appendStates for the entry (k, v) of the map: the state
\* is stored without Validate and adopted by the root when it has no parent
appendState(fstr, k, v) ==
    IF k \in DOMAIN fstr.states
    THEN [fstr |-> fstr, err |-> newFsmErrorStateIsInvalid("Can't add a duplicate state")]
    ELSE IF v.Parent = NoState
    THEN [fstr |-> [fstr EXCEPT !.states =
                        addSubState((k :> v) @@ fstr.states, fstr.start, k, FALSE).states],
          err |-> NilErr]
    ELSE [fstr |-> [fstr EXCEPT !.states = (k :> v) @@ fstr.states], err |-> NilErr]

\* the loop of appendStates over the entries of the map, in the order iterated
RECURSIVE appendStatesLoop(_, _, _)
appendStatesLoop(fstr, additional, idx) ==
    IF idx > Len(additional) THEN [fstr |-> fstr, err |-> NilErr]
    ELSE IF appendState(fstr, additional[idx].Name, additional[idx]).err # NilErr
    THEN appendState(fstr, additional[idx].Name, additional[idx])
    ELSE appendStatesLoop(appendState(fstr, additional[idx].Name, additional[idx]).fstr,
                          additional, idx + 1)

\* Structure.appendStates; start is a state or NewState(NoState, <<>>) for nil
appendStates(fstr, start, additional) ==
    IF start.Name # NoState /\ AddStartState(fstr, start, NoState).err # NilErr
    THEN AddStartState(fstr, start, NoState)
    ELSE IF start.Name # NoState
    THEN appendStatesLoop(AddStartState(fstr, start, NoState).fstr, additional, 1)
    ELSE appendStatesLoop(fstr, additional, 1)

(***************************************************************************)
(* Fsm.  A machine value is [stack, history, fatal]; its Structure is      *)
(* passed along (the Fsm only reads it).                                   *)
(***************************************************************************)
NoStep == [from |-> "", to |-> "", transition |-> ""]

HistoryItem(from, to, transition) == [from |-> from, to |-> to, transition |-> transition]

\* initStackAutoStates that pushes nothing
initStackWithoutAutoStates(fstr, st) == st

\* Fsm.initStackAutoStates
initStackAutoStates(fstr, st) ==
    IF ~Empty(st) THEN st ELSE Push(st, fstr.start).stack

\* NewFsm
NewFsm(fstr) ==
    [stack |-> initStackAutoStates(fstr, newContextStack), history |-> << >>, fatal |-> NilErr]

\* Reset that does not replace the stack before initStackAutoStates
ResetKeepingStack(fstr, fsm) ==
    [stack |-> initStackAutoStates(fstr, fsm.stack), history |-> << >>, fatal |-> NilErr]

\* Fsm.Reset
ResetOp(fstr, fsm) ==
    [stack |-> initStackAutoStates(fstr, newContextStack), history |-> << >>, fatal |-> NilErr]

\* Fsm.Fatal
Fatal(fsm) == fsm.fatal # NilErr

\* Completed without the check of the fatal error
CompletedIgnoringFatal(fstr, fsm) ==
    /\ Depth(fsm.stack) > FsmAutoStatesCount
    /\ Final(fstr.states[Peek(fsm.stack).state])

\* Fsm.Completed
Completed(fstr, fsm) ==
    /\ ~Fatal(fsm)
    /\ Depth(fsm.stack) > FsmAutoStatesCount
    /\ Final(fstr.states[Peek(fsm.stack).state])

\* Fsm.Running
Running(fstr, fsm) ==
    /\ Depth(fsm.stack) > FsmAutoStatesCount
    /\ ~Fatal(fsm)
    /\ ~Completed(fstr, fsm)

\* Fsm.Idle
Idle(fstr, fsm) ==
    /\ ~Running(fstr, fsm)
    /\ ~Completed(fstr, fsm)
    /\ ~Fatal(fsm)

\* Fsm.fatalError
fatalError(fsm) == IF ~Fatal(fsm) THEN NilErr ELSE fsm.fatal

\* Fsm.goFatal: the first cause is kept, with a snapshot of stack and history
goFatal(fsm, cause) ==
    IF Fatal(fsm) THEN fsm
    ELSE [fsm EXCEPT !.fatal = newFsmErrorInFatalState(cause, fsm.stack, fsm.history)]

\* Result that reads the root scope whatever the status
ResultWithoutStatusCheck(fstr, fsm) ==
    ContextRaw(Global(fsm.stack).context, FsmResultCtxMemberName)

\* Fsm.Result
Result(fstr, fsm) ==
    IF ~Completed(fstr, fsm)
    THEN [value |-> NoValue, err |-> newFsmErrorWrongFlow("get result", "not completed")]
    ELSE IF Fatal(fsm)
    THEN [value |-> NoValue, err |-> fatalError(fsm)]
    ELSE ContextRaw(Global(fsm.stack).context, FsmResultCtxMemberName)

\* what one Advance call returns and leaves behind:
\*   fsm the machine after the call, step/err the returned values,
\*   evaluated the transitions whose guard was called, in order,
\*   executed the transitions whose action was called
AdvanceOut(fsm, step, err, evaluated, executed) ==
    [fsm |-> fsm, step |-> step, err |-> err, evaluated |-> evaluated, executed |-> executed]

\* an Advance that fails before a transition is taken
AdvanceFail(fsm, err, evaluated) ==
    AdvanceOut(goFatal(fsm, err), NoStep, err, evaluated, << >>)

\* guard loop body that remembers the transition evaluated last, open or closed
GuardStepLastEvaluated(loop, name, idx, res) ==
    IF res.err
    THEN [loop EXCEPT !.failed = TRUE, !.evaluated = Append(@, name)]
    ELSE IF res.open
    THEN [loop EXCEPT !.evaluated = Append(@, name), !.transition = idx,
                      !.openedTransitionCount = @ + 1]
    ELSE [loop EXCEPT !.evaluated = Append(@, name), !.transition = idx]

\* guard loop body that treats a guard's error as a closed guard
GuardStepErrorIsClosed(loop, name, idx, res) ==
    IF res.open /\ ~res.err
    THEN [loop EXCEPT !.evaluated = Append(@, name), !.transition = idx,
                      !.openedTransitionCount = @ + 1]
    ELSE [loop EXCEPT !.evaluated = Append(@, name)]

\* body of the guard loop for the transition at idx, res being what its guard
\* returned; loop is [failed, evaluated, openedTransitionCount, transition]
GuardStep(loop, name, idx, res) ==
    IF res.err
    THEN [loop EXCEPT !.failed = TRUE, !.evaluated = Append(@, name)]
    ELSE IF res.open
    THEN [loop EXCEPT !.evaluated = Append(@, name), !.transition = idx,
                      !.openedTransitionCount = @ + 1]
    ELSE [loop EXCEPT !.evaluated = Append(@, name)]

\* the guard loop of Advance: guards are called in list order until one fails
RECURSIVE GuardLoopFrom(_, _, _, _)
GuardLoopFrom(trs, st, idx, loop) ==
    IF idx > Len(trs) \/ loop.failed THEN loop
    ELSE GuardLoopFrom(trs, st, idx + 1,
                       GuardStep(loop, trs[idx].Name, idx, EvalGuard(trs[idx].Guard, st)))

GuardLoop(trs, st) ==
    GuardLoopFrom(trs, st, 1,
        [failed |-> FALSE, evaluated |-> << >>, openedTransitionCount |-> 0, transition |-> 0])

\* count switch that lets the last open transition win when several are open
SelectNextLastOpenWins(fstr, trs, loop) ==
    IF loop.openedTransitionCount = 0
    THEN [next |-> NoState, err |-> newFsmErrorRuntime("all transitions are closed")]
    ELSE [next |-> IF trs[loop.transition].ToState \in DOMAIN fstr.states
                   THEN trs[loop.transition].ToState ELSE NoState,
          err |-> NilErr]

\* the switch on openedTransitionCount: the destination or the error
SelectNext(fstr, trs, loop) ==
    IF loop.openedTransitionCount = 0
    THEN [next |-> NoState, err |-> newFsmErrorRuntime("all transitions are closed")]
    ELSE IF loop.openedTransitionCount = 1
    THEN [next |-> IF trs[loop.transition].ToState \in DOMAIN fstr.states
                   THEN trs[loop.transition].ToState ELSE NoState,
          err |-> NilErr]
    ELSE [next |-> NoState, err |-> newFsmErrorRuntime("more than 1 transitions are opened")]

\* pop loop that makes one pop less than asked for
RECURSIVE PopLoopOneLess(_, _)
PopLoopOneLess(st, n) ==
    IF n <= 1 \/ Depth(st) <= FsmAutoStatesCount THEN st
    ELSE PopLoopOneLess(Pop(st), n - 1)

\* the pop loop: at most n pops, never below the automatic root entry
RECURSIVE PopLoop(_, _)
PopLoop(st, n) ==
    IF n <= 0 \/ Depth(st) <= FsmAutoStatesCount THEN st
    ELSE PopLoop(Pop(st), n - 1)

\* depth switch that treats a descent of several levels like a descent of one
DepthSwitchAnyDescent(st, depthDiff) ==
    IF depthDiff <= -1
    THEN [stack |-> st, err |-> NilErr]
    ELSE [stack |-> PopLoop(st, depthDiff + 1), err |-> NilErr]

\* the switch on depthDiff: the stack after popping, or the descent error
DepthSwitch(st, depthDiff) ==
    IF depthDiff = -1
    THEN [stack |-> st, err |-> NilErr]
    ELSE IF depthDiff < -1
    THEN [stack |-> st, err |-> newFsmErrorRuntime("Trying to go deeper than 1 state at a time")]
    ELSE [stack |-> PopLoop(st, depthDiff + 1), err |-> NilErr]

\* end of Advance that drops the error of the action
ActionDoneIgnoringError(entered, step, transition, evaluated, ran) ==
    AdvanceOut([entered EXCEPT !.stack = ran.stack], step, NilErr,
               evaluated, << transition.Name >>)

\* the end of Advance: ran is what the action returned on the entered machine
ActionDone(entered, step, transition, evaluated, ran) ==
    IF ran.err
    THEN AdvanceOut(goFatal([entered EXCEPT !.stack = ran.stack],
                            newFsmErrorCallbackFailed("entry action")),
                    step, newFsmErrorCallbackFailed("entry action"),
                    evaluated, << transition.Name >>)
    ELSE AdvanceOut([entered EXCEPT !.stack = ran.stack], step, NilErr,
                    evaluated, << transition.Name >>)

\* the action of the taken transition, if it has one, runs on the entered machine
RunTransitionAction(entered, step, transition, evaluated) ==
    IF transition.Action = NoAction
    THEN AdvanceOut(entered, step, NilErr, evaluated, << >>)
    ELSE ActionDone(entered, step, transition, evaluated,
                    RunAction(transition.Action, entered.stack))

\* entering a state with the action run before the destination is pushed
EnterStateActionFirst(fsm, st, currentName, next, transition, evaluated) ==
    IF ~Push(st, next).ok
    THEN AdvanceFail([fsm EXCEPT !.stack = st],
                     newFsmErrorRuntime("pushing new state to the stack failed"), evaluated)
    ELSE IF transition.Action = NoAction
    THEN AdvanceOut([fsm EXCEPT !.stack = Push(st, next).stack,
                                !.history = Append(@, HistoryItem(currentName, next, transition.Name))],
                    HistoryItem(currentName, next, transition.Name), NilErr, evaluated, << >>)
    ELSE ActionDone(
            [fsm EXCEPT !.history = Append(@, HistoryItem(currentName, next, transition.Name))],
            HistoryItem(currentName, next, transition.Name), transition, evaluated,
            [stack |-> Push(RunAction(transition.Action, st).stack, next).stack,
             err |-> RunAction(transition.Action, st).err])

\* entering a state where a refused push returns the error without goFatal
EnterStatePushFailureNotFatal(fsm, st, currentName, next, transition, evaluated) ==
    IF ~Push(st, next).ok
    THEN AdvanceOut([fsm EXCEPT !.stack = st], NoStep,
                    newFsmErrorRuntime("pushing new state to the stack failed"),
                    evaluated, << >>)
    ELSE RunTransitionAction(
            [fsm EXCEPT !.stack = Push(st, next).stack,
                        !.history = Append(@, HistoryItem(currentName, next, transition.Name))],
            HistoryItem(currentName, next, transition.Name), transition, evaluated)

\* entering a state with the head of the popped stack recorded as the state left
EnterStateFromPoppedHead(fsm, st, currentName, next, transition, evaluated) ==
    IF ~Push(st, next).ok
    THEN AdvanceFail([fsm EXCEPT !.stack = st],
                     newFsmErrorRuntime("pushing new state to the stack failed"), evaluated)
    ELSE RunTransitionAction(
            [fsm EXCEPT !.stack = Push(st, next).stack,
                        !.history = Append(@, HistoryItem(Peek(st).state, next, transition.Name))],
            HistoryItem(Peek(st).state, next, transition.Name), transition, evaluated)

\* push of the destination on the popped stack st, history item, action
EnterState(fsm, st, currentName, next, transition, evaluated) ==
    IF ~Push(st, next).ok
    THEN AdvanceFail([fsm EXCEPT !.stack = st],
                     newFsmErrorRuntime("pushing new state to the stack failed"), evaluated)
    ELSE RunTransitionAction(
            [fsm EXCEPT !.stack = Push(st, next).stack,
                        !.history = Append(@, HistoryItem(currentName, next, transition.Name))],
            HistoryItem(currentName, next, transition.Name), transition, evaluated)

\* common ancestor check and depth switch for the destination next
MoveTo(fstr, fsm, currentName, next, transition, evaluated) ==
    IF findCommonAncestor(fstr.states, currentName, next).ancestor = NoState
    THEN AdvanceFail(fsm, newFsmErrorRuntime("states don't have a common parent"), evaluated)
    ELSE IF DepthSwitch(fsm.stack,
                        findCommonAncestor(fstr.states, currentName, next).depth_diff).err # NilErr
    THEN AdvanceFail(fsm,
            DepthSwitch(fsm.stack,
                        findCommonAncestor(fstr.states, currentName, next).depth_diff).err,
            evaluated)
    ELSE EnterState(fsm,
            DepthSwitch(fsm.stack,
                        findCommonAncestor(fstr.states, currentName, next).depth_diff).stack,
            currentName, next, transition, evaluated)

\* Advance after the guard loop over the transitions trs of the head state
AfterGuards(fstr, fsm, currentName, trs, loop) ==
    IF loop.failed
    THEN AdvanceFail(fsm, newFsmErrorCallbackFailed("guard"), loop.evaluated)
    ELSE IF SelectNext(fstr, trs, loop).next = NoState
    THEN AdvanceFail(fsm, SelectNext(fstr, trs, loop).err, loop.evaluated)
    ELSE MoveTo(fstr, fsm, currentName, SelectNext(fstr, trs, loop).next,
                trs[loop.transition], loop.evaluated)

\* Advance from the guard loop on (the machine is Running, or Idle and valid)
AdvanceStep(fstr, fsm) ==
    AfterGuards(fstr, fsm, Peek(fsm.stack).state,
                fstr.states[Peek(fsm.stack).state].Transitions,
                GuardLoop(fstr.states[Peek(fsm.stack).state].Transitions, fsm.stack))

\* the status switch without the case of the Fatal machine
StatusSwitchWithoutFatalCase(fstr, fsm, verr) ==
    IF Idle(fstr, fsm)
    THEN IF verr # NilErr
         THEN [done |-> TRUE, out |-> AdvanceOut(goFatal(fsm, verr), NoStep, verr, << >>, << >>)]
         ELSE [done |-> FALSE, out |-> AdvanceOut(fsm, NoStep, NilErr, << >>, << >>)]
    ELSE IF Completed(fstr, fsm)
    THEN [done |-> TRUE,
          out |-> AdvanceOut(fsm, NoStep, newFsmErrorWrongFlow("advance", "completed"), << >>, << >>)]
    ELSE [done |-> FALSE, out |-> AdvanceOut(fsm, NoStep, NilErr, << >>, << >>)]

\* the status switch sending the Completed machine to Fatal like the other errors
StatusSwitchCompletedGoesFatal(fstr, fsm, verr) ==
    IF Idle(fstr, fsm)
    THEN IF verr # NilErr
         THEN [done |-> TRUE, out |-> AdvanceOut(goFatal(fsm, verr), NoStep, verr, << >>, << >>)]
         ELSE [done |-> FALSE, out |-> AdvanceOut(fsm, NoStep, NilErr, << >>, << >>)]
    ELSE IF Completed(fstr, fsm)
    THEN LET err == newFsmErrorWrongFlow("advance", "completed")
         IN  [done |-> TRUE, out |-> AdvanceOut(goFatal(fsm, err), NoStep, err, << >>, << >>)]
    ELSE IF Fatal(fsm)
    THEN [done |-> TRUE, out |-> AdvanceOut(fsm, NoStep, fatalError(fsm), << >>, << >>)]
    ELSE [done |-> FALSE, out |-> AdvanceOut(fsm, NoStep, NilErr, << >>, << >>)]

\* the status switch without the validation of the Structure on an Idle machine
StatusSwitchWithoutValidate(fstr, fsm, verr) ==
    IF Idle(fstr, fsm)
    THEN [done |-> FALSE, out |-> AdvanceOut(fsm, NoStep, NilErr, << >>, << >>)]
    ELSE IF Completed(fstr, fsm)
    THEN [done |-> TRUE,
          out |-> AdvanceOut(fsm, NoStep, newFsmErrorWrongFlow("advance", "completed"), << >>, << >>)]
    ELSE IF Fatal(fsm)
    THEN [done |-> TRUE, out |-> AdvanceOut(fsm, NoStep, fatalError(fsm), << >>, << >>)]
    ELSE [done |-> FALSE, out |-> AdvanceOut(fsm, NoStep, NilErr, << >>, << >>)]

\* the switch on the status at the top of Advance: done = the call returns there.
\* verr is the value Structure.Validate returns when the machine is Idle.
StatusSwitch(fstr, fsm, verr) ==
    IF Idle(fstr, fsm)
    THEN IF verr # NilErr
         THEN [done |-> TRUE, out |-> AdvanceOut(goFatal(fsm, verr), NoStep, verr, << >>, << >>)]
         ELSE [done |-> FALSE, out |-> AdvanceOut(fsm, NoStep, NilErr, << >>, << >>)]
    ELSE IF Completed(fstr, fsm)
    THEN [done |-> TRUE,
          out |-> AdvanceOut(fsm, NoStep, newFsmErrorWrongFlow("advance", "completed"), << >>, << >>)]
    ELSE IF Fatal(fsm)
    THEN [done |-> TRUE, out |-> AdvanceOut(fsm, NoStep, fatalError(fsm), << >>, << >>)]
    ELSE [done |-> FALSE, out |-> AdvanceOut(fsm, NoStep, NilErr, << >>, << >>)]

\* Fsm.Advance
AdvanceOp(fstr, fsm, verr) ==
    IF StatusSwitch(fstr, fsm, verr).done
    THEN StatusSwitch(fstr, fsm, verr).out
    ELSE AdvanceStep(fstr, fsm)

\* one iteration of the loop of Run: out is what Advance returned.
\* run is [fsm, err, executed, returned, calls]; returned = FALSE when the
\* loop would run past MaxHistory, calls counts the calls of Advance
RunIteration(run, out) ==
    IF Len(out.fsm.history) > MaxHistory
    THEN [run EXCEPT !.returned = FALSE]
    ELSE [fsm |-> out.fsm, err |-> out.err, executed |-> run.executed \o out.executed,
          returned |-> TRUE, calls |-> run.calls + 1]

\* the loop of Run leaving after its first iteration
RunLoopOnce(fstr, run, verr) ==
    IF run.returned /\ ~Completed(fstr, run.fsm) /\ ~Fatal(run.fsm) /\ run.err = NilErr
    THEN RunIteration(run, AdvanceOp(fstr, run.fsm, verr))
    ELSE run

\* the loop of Run
RECURSIVE RunLoop(_, _, _)
RunLoop(fstr, run, verr) ==
    IF run.returned /\ ~Completed(fstr, run.fsm) /\ ~Fatal(run.fsm) /\ run.err = NilErr
    THEN RunLoop(fstr, RunIteration(run, AdvanceOp(fstr, run.fsm, verr)), verr)
    ELSE run

\* the end of Run: the result is read when the machine is Completed
RunReturn(fstr, run) ==
    IF Completed(fstr, run.fsm)
    THEN [fsm |-> run.fsm, res |-> Result(fstr, run.fsm).value,
          err |-> Result(fstr, run.fsm).err,
          executed |-> run.executed, returned |-> run.returned, calls |-> run.calls]
    ELSE [fsm |-> run.fsm, res |-> NoValue, err |-> run.err,
          executed |-> run.executed, returned |-> run.returned, calls |-> run.calls]

\* Fsm.Run
RunOp(fstr, fsm, verr) ==
    RunReturn(fstr, RunLoop(fstr,
        [fsm |-> fsm, err |-> NilErr, executed |-> << >>, returned |-> TRUE, calls |-> 0],
        verr))

(***************************************************************************)
(* Builder.  A declaration set (JsonStates) is a function from the names   *)
(* declared to JsonState records; the transitions of a declaration are a   *)
(* sequence, in the order the iteration over the map yields them.  The     *)
(* StateInfo objects a load has made and not yet stored are a table of     *)
(* their own (heap), keyed by name.                                        *)
(***************************************************************************)
newFsmErrorLoading(cause) == FsmError("ErrFsmLoading", cause)

JsonGuard(type, key, value) == [Type |-> type, Key |-> key, Value |-> value]
JsonAction(name) == [Name |-> name]
JsonTransition(to, guard, action) == [ToState |-> to, Guard |-> guard, Action |-> action]
JsonState(start, startsub, parent, transitions) ==
    [Start |-> start, StartSubState |-> startsub, Parent |-> parent, Transitions |-> transitions]

\* the ActionMap given to NewBuilder
BuilderActions == [setk |-> ActionPut("k", "a"), setresult |-> ActionResult("a")]

\* JsonGuard.GuardFn
GuardFn(jg) ==
    IF jg.Type \in {"always", ""}
    THEN [guard |-> GuardAlways, err |-> NilErr]
    ELSE IF jg.Type = "context"
    THEN IF jg.Key = "" \/ jg.Value = NoValue
         THEN [guard |-> NoGuard, err |-> newFsmErrorInvalid("No key/value specified")]
         ELSE [guard |-> GuardContext(jg.Key, jg.Value), err |-> NilErr]
    ELSE [guard |-> NoGuard, err |-> newFsmErrorInvalid("unknown guard type")]

\* JsonAction.PackagedAction (declarations without params)
PackagedAction(ja, actions) ==
    IF ja.Name = ""
    THEN [pa |-> NoAction, err |-> NilErr]
    ELSE IF ja.Name \notin DOMAIN actions
    THEN [pa |-> NoAction, err |-> newFsmErrorInvalid("action was not found in the map")]
    ELSE [pa |-> actions[ja.Name], err |-> NilErr]

\* JsonTransition.Transition
Transition(jt, name, actions) ==
    IF PackagedAction(jt.Action, actions).err # NilErr
    THEN [tr |-> NewTransition("", "", NoGuard, NoAction),
          err |-> PackagedAction(jt.Action, actions).err]
    ELSE IF GuardFn(jt.Guard).err # NilErr
    THEN [tr |-> NewTransition("", "", NoGuard, NoAction), err |-> GuardFn(jt.Guard).err]
    ELSE [tr |-> NewTransition(name, jt.ToState, GuardFn(jt.Guard).guard,
                               PackagedAction(jt.Action, actions).pa),
          err |-> NilErr]

\* the loop of JsonState.StateInfo over js.Transitions: stops at the first error
RECURSIVE StateInfoTransitions(_, _, _, _)
StateInfoTransitions(jtrs, idx, actions, trs) ==
    IF idx > Len(jtrs) THEN [trs |-> trs, err |-> NilErr]
    ELSE IF Transition(jtrs[idx].tr, jtrs[idx].name, actions).err # NilErr
    THEN [trs |-> trs, err |-> Transition(jtrs[idx].tr, jtrs[idx].name, actions).err]
    ELSE StateInfoTransitions(jtrs, idx + 1, actions,
            Append(trs, Transition(jtrs[idx].tr, jtrs[idx].name, actions).tr))

\* the end of JsonState.StateInfo: the state made is linked to its parent; the
\* error of addSubState is dropped
StateInfoParent(js, si, parent, start, heap) ==
    IF js.Parent = ""
    THEN [heap |-> (si.Name :> si) @@ heap, err |-> NilErr]
    ELSE IF parent = NoState
    THEN [heap |-> heap,
          err |-> newFsmErrorInvalid("Json defined a parent, but parent object is empty")]
    ELSE IF heap[parent].Name # js.Parent
    THEN [heap |-> heap, err |-> newFsmErrorInvalid("Parent is different from expected")]
    ELSE [heap |-> addSubState((si.Name :> si) @@ heap, parent, si.Name, start).states,
          err |-> NilErr]

\* JsonState.StateInfo: the heap with the state made, or the error
StateInfo(js, name, parent, actions, heap) ==
    IF js.StartSubState # ""
    THEN IF Len(js.Transitions) > 0
         THEN [heap |-> heap,
               err |-> newFsmErrorInvalid("State w/ start sub state can't have custom transitions")]
         ELSE StateInfoParent(js,
                NewState(name, NewTransitionAlways("Always " \o name \o "->" \o js.StartSubState,
                                                   js.StartSubState, NoAction)),
                parent, TRUE, heap)
    ELSE IF StateInfoTransitions(js.Transitions, 1, actions, << >>).err # NilErr
    THEN [heap |-> heap, err |-> StateInfoTransitions(js.Transitions, 1, actions, << >>).err]
    ELSE StateInfoParent(js,
            NewState(name, StateInfoTransitions(js.Transitions, 1, actions, << >>).trs),
            parent, FALSE, heap)

\* indexes[k] of buildStateHierarchy: the position of k in names, and the zero
\* value of the map (the first position) for a name that was not declared
indexes(names, k) ==
    IF \E i \in 1..Len(names) : names[i] = k
    THEN CHOOSE i \in 1..Len(names) : names[i] = k
    ELSE 1

\* graph of buildStateHierarchy: <<i, j>> is there when i depends on j
depGraph(states, names) ==
    {<<indexes(names, name), indexes(names, states[name].Parent)>> :
        name \in {n \in DOMAIN states : Len(states[n].Parent) > 0}}
    \cup {<<indexes(names, states[name].StartSubState), indexes(names, name)>> :
        name \in {n \in DOMAIN states : Len(states[n].StartSubState) > 0}}

depMarker == [visited |-> FALSE, visiting |-> FALSE]

\* the deferred function of satisfyDependencies
markVisited(acc, index) ==
    [acc EXCEPT !.markers[index] = [visited |-> TRUE, visiting |-> FALSE]]

\* the parent of the state to make: the start state, or a state of dest
findParent(js, acc) ==
    IF js.Parent = "" THEN [parent |-> NoState, found |-> TRUE]
    ELSE IF acc.start # NoState /\ acc.start = js.Parent
    THEN [parent |-> acc.start, found |-> TRUE]
    ELSE IF js.Parent \in acc.dest
    THEN [parent |-> js.Parent, found |-> TRUE]
    ELSE [parent |-> NoState, found |-> FALSE]

\* commitState without the check for a second start state: the last one wins
commitStateLastStartWins(name, js, acc, made) ==
    IF made.err # NilErr THEN [acc EXCEPT !.err = made.err]
    ELSE IF js.Start
    THEN [acc EXCEPT !.heap = made.heap, !.start = name]
    ELSE [acc EXCEPT !.heap = made.heap, !.dest = @ \cup {name}]

\* the end of satisfyDependencies: the state made becomes the start state or
\* an entry of dest
commitState(name, js, acc, made) ==
    IF made.err # NilErr THEN [acc EXCEPT !.err = made.err]
    ELSE IF js.Start
    THEN IF acc.start # NoState
         THEN [acc EXCEPT !.heap = made.heap,
                          !.err = newFsmErrorLoading("Several start states defined")]
         ELSE [acc EXCEPT !.heap = made.heap, !.start = name]
    ELSE [acc EXCEPT !.heap = made.heap, !.dest = @ \cup {name}]

\* satisfyDependencies after the dependencies of names[index] were satisfied
makeState(name, js, acc, actions) ==
    IF ~findParent(js, acc).found
    THEN [acc EXCEPT !.err =
            newFsmErrorLoading("Internal error: parent is to be added before the child")]
    ELSE commitState(name, js, acc,
            StateInfo(js, name, findParent(js, acc).parent, actions, acc.heap))

\* satisfyDependencies, and its loop over graph[index] from position on.
\* acc holds markers, *start, dest, the heap and the error returned.
RECURSIVE satisfyDependencies(_, _, _, _, _, _)
RECURSIVE satisfyLoop(_, _, _, _, _, _, _)

\* satisfyDependencies that takes a state it is visiting for a visited one
satisfyDependenciesVisitingSkipped(index, graph, acc, names, source, actions) ==
    IF acc.markers[index].visiting \/ acc.markers[index].visited
    THEN acc
    ELSE markVisited(
            satisfyLoop(index, 1, graph,
                [acc EXCEPT !.markers[index].visiting = TRUE], names, source, actions),
            index)

satisfyDependencies(index, graph, acc, names, source, actions) ==
    IF acc.markers[index].visiting
    THEN [acc EXCEPT !.err = newFsmErrorLoading("State hierarchy is cycled")]
    ELSE IF acc.markers[index].visited
    THEN acc
    ELSE markVisited(
            satisfyLoop(index, 1, graph,
                [acc EXCEPT !.markers[index].visiting = TRUE], names, source, actions),
            index)

satisfyLoop(index, on, graph, acc, names, source, actions) ==
    IF acc.err # NilErr THEN acc
    ELSE IF on > Len(names)
    THEN makeState(names[index], source[names[index]], acc, actions)
    ELSE IF <<index, on>> \in graph
    THEN satisfyLoop(index, on + 1, graph,
            satisfyDependencies(on, graph, acc, names, source, actions),
            names, source, actions)
    ELSE satisfyLoop(index, on + 1, graph, acc, names, source, actions)

\* the loop of buildStateHierarchy over the indexes, in the order iterated
RECURSIVE buildLoop(_, _, _, _, _, _, _)
buildLoop(order, pos, graph, acc, names, source, actions) ==
    IF pos > Len(order) \/ acc.err # NilErr THEN acc
    ELSE buildLoop(order, pos + 1, graph,
            satisfyDependencies(order[pos], graph, acc, names, source, actions),
            names, source, actions)

\* buildStateHierarchy: names is the order in which the first loop over the map
\* met the declarations, order the order of the last one
buildStateHierarchy(states, actions, names, order) ==
    buildLoop(order, 1, depGraph(states, names),
        [markers |-> [i \in 1..Len(names) |-> depMarker], start |-> NoState, dest |-> {},
         heap |-> << >>, err |-> NilErr],
        names, states, actions)

\* nil pointers to a Structure and to an Fsm
NoStructure == [states |-> << >>, start |-> NoState]
NoFsm == [stack |-> << >>, history |-> << >>, fatal |-> NilErr]

\* Structure.Empty
StructureEmpty(fstr) == Cardinality(DOMAIN fstr.states) <= FsmAutoStatesCount

\* NewBuilder: an empty Structure and no error (the ActionMap is BuilderActions)
NewBuilder == [fstr |-> NewStructure, err |-> NilErr]

\* the states of list, as the map handed to appendStates (what appendStates
\* stores does not depend on the order of its loop: each state is stored under
\* its name and adopted by the root when it has no parent)
RECURSIVE listStates(_, _, _)
listStates(built, names, idx) ==
    IF idx > Len(names) THEN << >>
    ELSE IF names[idx] \in built.dest
    THEN << built.heap[names[idx]] >> \o listStates(built, names, idx + 1)
    ELSE listStates(built, names, idx + 1)

\* the end of FromJsonType, after buildStateHierarchy
loadStates(b, built, names) ==
    IF built.err # NilErr THEN [b EXCEPT !.err = built.err]
    ELSE IF built.start = NoState
    THEN [b EXCEPT !.err = newFsmErrorLoading("Start state is not defined")]
    ELSE IF Cardinality(built.dest) = 0
    THEN [b EXCEPT !.err = newFsmErrorLoading("State machine is empty")]
    ELSE [fstr |-> appendStates(b.fstr, built.heap[built.start],
                                listStates(built, names, 1)).fstr,
          err |-> appendStates(b.fstr, built.heap[built.start],
                               listStates(built, names, 1)).err]

\* Builder.FromJsonType
FromJsonType(b, root, names, order) ==
    IF b.err # NilErr \/ ~StructureEmpty(b.fstr) THEN b
    ELSE IF "states" \notin DOMAIN root
    THEN [b EXCEPT !.err =
            newFsmErrorLoading("Json is ill-formed: no top-level states object found")]
    ELSE loadStates(b, buildStateHierarchy(root.states, BuilderActions, names, order), names)

\* Builder.Structure that does not look at the error recorded
BuilderStructureForgettingError(b, verr) ==
    IF StructureEmpty(b.fstr)
    THEN [fstr |-> NoStructure, err |-> newFsmErrorLoading("FSM structure is not created yet")]
    ELSE IF verr = NilErr THEN [fstr |-> b.fstr, err |-> NilErr]
    ELSE [fstr |-> NoStructure, err |-> verr]

\* Builder.Structure; verr is what Validate returns for b.fstr
BuilderStructure(b, verr) ==
    IF b.err # NilErr THEN [fstr |-> NoStructure, err |-> b.err]
    ELSE IF StructureEmpty(b.fstr)
    THEN [fstr |-> NoStructure, err |-> newFsmErrorLoading("FSM structure is not created yet")]
    ELSE IF verr = NilErr THEN [fstr |-> b.fstr, err |-> NilErr]
    ELSE [fstr |-> NoStructure, err |-> verr]

\* Builder.Fsm; verr is what Validate returns for b.fstr
BuilderFsm(b, verr) ==
    IF BuilderStructure(b, verr).err # NilErr
    THEN [fsm |-> NoFsm, fstr |-> NoStructure, err |-> BuilderStructure(b, verr).err]
    ELSE [fsm |-> NewFsm(BuilderStructure(b, verr).fstr),
          fstr |-> BuilderStructure(b, verr).fstr, err |-> NilErr]

(***************************************************************************)
(* Structures explored.  Each one is assembled with the Structure API.     *)
(***************************************************************************)
\* Flat machines in the style of the package tests: global -> "1", and "1"
\* owns two guarded transitions; "2" is final or continues to "3" under a
\* context guard on the key "k"
FlatGuards == {GuardAlways, GuardNever, GuardFail}
FlatActions1 == {NoAction, ActionPut("k", "a"), ActionPut("k", "b"), ActionResult("a"),
                 ActionFail, ActionPutFail("k", "a")}
FlatActions2 == {NoAction, ActionResult("b"), ActionFail}
FlatContinuations ==
    {<< >>, << NewTransition("2-3", "3", GuardContext("k", "a"), ActionResult("b")) >>,
     << NewTransition("2-3", "3", GuardAlways, ActionResult("b")) >>}

\* an optional third transition of "1"
FlatThird ==
    {<< >>} \cup {<< NewTransition("1-2b", "2", g3, NoAction) >> : g3 \in FlatGuards}

FlatStructure(g1, a1, g2, a2, third, cont) ==
    MakeStructure(NoState,
        NewState("1", << NewTransition("1-2", "2", g1, a1), NewTransition("1-3", "3", g2, a2) >>
                      \o third),
        << NewState("2", cont), NewState("3", << >>) >>)

FlatStructures ==
    {FlatStructure(g1, a1, g2, a2, third, cont) :
        g1 \in FlatGuards, a1 \in FlatActions1, g2 \in FlatGuards, a2 \in FlatActions2,
        third \in FlatThird, cont \in FlatContinuations}

\* Nested machines: global > A > A1 > A11 and global > B > B1.  Every state is
\* final (NoState) or owns one unconditional transition: to a child, a sibling,
\* itself, a state of the other branch, a deeper descendant, an ancestor or the root.
TreeTargets ==
    [A |-> {"A1", "A11", "B", "B1", FsmGlobalStateName},
     A1 |-> {NoState, "A11", "A1", "A", "B1"},
     A11 |-> {NoState, "A", "B", FsmGlobalStateName},
     B |-> {NoState, "B1", "A", "A11"},
     B1 |-> {NoState, "B", "A1"}]
TreeActions == {NoAction, ActionPut("k", "a"), ActionResult("a")}

TreeState(name, to, action) ==
    NewState(name, IF to = NoState THEN << >>
                   ELSE NewTransitionAlways(name \o "-" \o to, to, action))

TreeStructure(to, action) ==
    LET s0 == NewStructure
        s1 == AddStartState(s0, TreeState("A", to.A, action), NoState).fstr
        s2 == AddState(s1, TreeState("A1", to.A1, action), "A").fstr
        s3 == AddState(s2, TreeState("A11", to.A11, action), "A1").fstr
        s4 == AddState(s3, TreeState("B", to.B, action), NoState).fstr
        s5 == AddState(s4, TreeState("B1", to.B1, action), "B").fstr
    IN  s5

TreeStructures ==
    {TreeStructure(to, action) :
        to \in [A : TreeTargets.A, A1 : TreeTargets.A1, A11 : TreeTargets.A11,
                B : TreeTargets.B, B1 : TreeTargets.B1],
        action \in TreeActions}

\* the machine without states (NewStructure alone), the flat and the nested machines
Structures == {NewStructure} \cup FlatStructures \cup TreeStructures

(***************************************************************************)
(* State machine of one Fsm instance                                       *)
(***************************************************************************)
VARIABLES
    structure,  \* fsm.structure
    stack,      \* fsm.stack
    history,    \* fsm.history
    fatal,      \* fsm.fatal
    last,       \* the latest call: its name, what it returned, the callbacks it made
    bld         \* a Builder: the Structure it fills and the error it recorded

vars == <<structure, stack, history, fatal, last, bld>>

\* the machine as a value
fsm == [stack |-> stack, history |-> history, fatal |-> fatal]

Call(op, err, res, step, evaluated, executed) ==
    [op |-> op, err |-> err, res |-> res, step |-> step,
     evaluated |-> evaluated, executed |-> executed]

Init ==
    /\ structure \in Structures
    /\ stack = NewFsm(structure).stack
    /\ history = NewFsm(structure).history
    /\ fatal = NewFsm(structure).fatal
    /\ last = Call("NewFsm", NilErr, NoValue, NoStep, << >>, << >>)
    /\ bld = NewBuilder

\* fsm.Advance()
Advance ==
    \E verr \in (IF Idle(structure, fsm) THEN Validate(structure) ELSE {NilErr}) :
        \E out \in {AdvanceOp(structure, fsm, verr)} :
            /\ Len(out.fsm.history) <= MaxHistory
            /\ stack' = out.fsm.stack
            /\ history' = out.fsm.history
            /\ fatal' = out.fsm.fatal
            /\ UNCHANGED bld
            /\ last' = Call("Advance", out.err, NoValue, out.step, out.evaluated, out.executed)
            /\ UNCHANGED structure

\* fsm.Run()
Run ==
    \E verr \in (IF Idle(structure, fsm) THEN Validate(structure) ELSE {NilErr}) :
        \E out \in {RunOp(structure, fsm, verr)} :
            /\ out.returned
            /\ stack' = out.fsm.stack
            /\ history' = out.fsm.history
            /\ fatal' = out.fsm.fatal
            /\ UNCHANGED bld
            /\ last' = Call("Run", out.err, out.res, NoStep, << >>, out.executed)
            /\ UNCHANGED structure

\* Reset that also replaces the Structure by an empty one
ResetDiscardingStructure ==
    /\ stack' = ResetOp(NewStructure, fsm).stack
    /\ history' = ResetOp(NewStructure, fsm).history
    /\ fatal' = ResetOp(NewStructure, fsm).fatal
    /\ UNCHANGED bld
    /\ last' = Call("Reset", NilErr, NoValue, NoStep, << >>, << >>)
    /\ structure' = NewStructure

\* fsm.Reset()
Reset ==
    /\ stack' = ResetOp(structure, fsm).stack
    /\ history' = ResetOp(structure, fsm).history
    /\ fatal' = ResetOp(structure, fsm).fatal
    /\ UNCHANGED bld
    /\ last' = Call("Reset", NilErr, NoValue, NoStep, << >>, << >>)
    /\ UNCHANGED structure

\* fsm.Result()
GetResult ==
    /\ UNCHANGED bld
    /\ last' = Call("Result", Result(structure, fsm).err, Result(structure, fsm).value,
                    NoStep, << >>, << >>)
    /\ UNCHANGED <<structure, stack, history, fatal>>

Next == Advance \/ Run \/ Reset \/ GetResult

Spec == Init /\ [][Next]_vars

\* ---------------------------------------------------------------------------
\* The machine and the Structure it was made of.  NewFsm keeps the pointer it
\* is given, so the caller's Structure and fsm.structure are one object and
\* the calls on the Structure act on the table the machine runs on.

\* states offered to the Structure of a machine, and the parents named
SharedStates == {NewState("4", << >>), NewState("4", NewTransitionAlways("4-3", "3", NoAction))}
SharedParents == {NoState, "3"}

\* the machines the states are added to: "1" goes to "2" or to "3", "2" is
\* final or goes on to "3"
SharedStructures ==
    {FlatStructure(g1, a1, g2, NoAction, << >>, cont) :
        g1 \in FlatGuards, a1 \in {NoAction, ActionResult("a")}, g2 \in FlatGuards,
        cont \in FlatContinuations}

InitShared ==
    /\ structure \in SharedStructures
    /\ stack = NewFsm(structure).stack
    /\ history = NewFsm(structure).history
    /\ fatal = NewFsm(structure).fatal
    /\ last = Call("NewFsm", NilErr, NoValue, NoStep, << >>, << >>)
    /\ bld = NewBuilder

\* fstr.AddState(state, parent) on the Structure given to NewFsm
SharedAddState ==
    \E state \in SharedStates, parent \in SharedParents :
        \E r \in {AddState(structure, state, parent)} :
            /\ structure' = r.fstr
            /\ UNCHANGED bld
            /\ last' = Call("AddState", r.err, NoValue, NoStep, << >>, << >>)
            /\ UNCHANGED <<stack, history, fatal>>

\* fstr.AddStartState(state, parent) on the Structure given to NewFsm
SharedAddStartState ==
    \E state \in SharedStates, parent \in SharedParents :
        \E r \in {AddStartState(structure, state, parent)} :
            /\ structure' = r.fstr
            /\ UNCHANGED bld
            /\ last' = Call("AddStartState", r.err, NoValue, NoStep, << >>, << >>)
            /\ UNCHANGED <<stack, history, fatal>>

\* fstr.AddStates(parent, nil, state) on the Structure given to NewFsm
SharedAddStates ==
    \E state \in SharedStates, parent \in SharedParents :
        \E r \in {AddStates(structure, parent, NewState(NoState, << >>), << state >>)} :
            /\ structure' = r.fstr
            /\ UNCHANGED bld
            /\ last' = Call("AddStates", r.err, NoValue, NoStep, << >>, << >>)
            /\ UNCHANGED <<stack, history, fatal>>

NextShared == Advance \/ Reset \/ SharedAddState \/ SharedAddStartState \/ SharedAddStates

SpecShared == InitShared /\ [][NextShared]_vars

(***************************************************************************)
(* Construction of a Structure: AddStartState, AddState and appendStates   *)
(* applied to NewStructure in any order, and Validate on the table built.  *)
(* The Fsm fields are not used by this specification.                      *)
(***************************************************************************)
\* names of the states offered to the Structure, and the transition targets
\* used, one of which ("x") is never a state
BuildNames == {"1", "2", "3"}
BuildTargets == {"2", "3", "x"}

\* states handed to AddStartState and AddState: final, or with one transition
BuildStates ==
    {NewState(n, << >>) : n \in BuildNames} \cup
    {NewState(n, NewTransitionAlways(n \o "-" \o t, t, NoAction)) :
        n \in BuildNames, t \in BuildTargets}

\* states a loader hands to appendStates: with a transition that has a name
\* or has none
LoadedStates ==
    {NewState(n, << NewTransition(nm, "2", GuardAlways, NoAction) >>) :
        n \in {"2", "3"}, nm \in {"", "loaded"}}

\* parents named in the calls: nil or a state that may or may not be in the
\* table; the parent handed to a call is another object than the state to add
BuildParents == {NoState, "1"}

\* what a call on the Structure was given (the name of the state, the parent)
\* and the error it returned
BuildCall(op, state, parent, err) ==
    [op |-> op, state |-> state, parent |-> parent, err |-> err]

InitBuild ==
    /\ structure = NewStructure
    /\ stack = newContextStack
    /\ history = << >>
    /\ fatal = NilErr
    /\ last = BuildCall("NewStructure", NoState, NoState, NilErr)
    /\ bld = NewBuilder

\* fstr.AddStartState(state, parent)
BuildAddStartState ==
    \E state \in BuildStates, parent \in BuildParents :
        \E r \in {AddStartState(structure, state, parent)} :
            /\ parent # state.Name
            /\ structure' = r.fstr
            /\ UNCHANGED bld
            /\ last' = BuildCall("AddStartState", state.Name, parent, r.err)
            /\ UNCHANGED <<stack, history, fatal>>

\* fstr.AddState(state, parent)
BuildAddState ==
    \E state \in BuildStates, parent \in BuildParents :
        \E r \in {AddState(structure, state, parent)} :
            /\ parent # state.Name
            /\ structure' = r.fstr
            /\ UNCHANGED bld
            /\ last' = BuildCall("AddState", state.Name, parent, r.err)
            /\ UNCHANGED <<stack, history, fatal>>

\* fstr.appendStates(nil, {state.Name: state})
BuildAppendStates ==
    \E state \in LoadedStates :
        \E r \in {appendStates(structure, NewState(NoState, << >>), << state >>)} :
            /\ structure' = r.fstr
            /\ UNCHANGED bld
            /\ last' = BuildCall("appendStates", state.Name, NoState, r.err)
            /\ UNCHANGED <<stack, history, fatal>>

\* fstr.Validate()
BuildValidate ==
    \E verr \in Validate(structure) :
        /\ UNCHANGED bld
        /\ last' = BuildCall("Validate", NoState, NoState, verr)
        /\ UNCHANGED <<structure, stack, history, fatal>>

NextBuild == BuildAddStartState \/ BuildAddState \/ BuildAppendStates \/ BuildValidate

SpecBuild == InitBuild /\ [][NextBuild]_vars

(***************************************************************************)
(* The ContextStack on its own: Push, Pop, Put, PutResult and the lookups  *)
(* applied in any order to a new stack.  The Structure and the Fsm fields  *)
(* other than the stack are not used by this specification.                *)
(***************************************************************************)
\* bound of the depth the stack is driven to
MaxDepth == 3

\* the Go value true, the one stored value that is not a string, and the
\* values the calls store: a string and a bool
BoolTrue == "true"
StoredValues == {"a", BoolTrue}

\* reflect.TypeOf of a stored value
TypeOf(v) == IF v \in Values THEN "string" ELSE "bool"

newCtxErrorInvalidType(requested, actual) ==
    FsmError("ErrCtxInvalidType", "requested: " \o requested \o ", actual: " \o actual)

\* ContextStack.Str: Raw, then the type assertion; "" is the zero string
StackStr(st, key) ==
    IF StackRaw(st, key).err # NilErr
    THEN [value |-> "", err |-> StackRaw(st, key).err]
    ELSE IF TypeOf(StackRaw(st, key).value) = "string"
    THEN [value |-> StackRaw(st, key).value, err |-> NilErr]
    ELSE [value |-> "", err |-> newCtxErrorInvalidType("string", TypeOf(StackRaw(st, key).value))]

\* states pushed, nil included
PushedStates == {NoState, FsmGlobalStateName, "1"}

\* what a call on the stack was given and what it returned
StackCall(op, arg, value, err, res) ==
    [op |-> op, arg |-> arg, value |-> value, err |-> err, res |-> res]

\* a bool as the calls return it
BoolStr(b) == IF b THEN "true" ELSE "false"

InitStack ==
    /\ structure = NewStructure
    /\ stack = newContextStack
    /\ history = << >>
    /\ fatal = NilErr
    /\ last = StackCall("newContextStack", "", NoValue, NilErr, NoValue)
    /\ bld = NewBuilder

\* st.Push(state)
DoPush ==
    \E state \in PushedStates :
        /\ Depth(Push(stack, state).stack) <= MaxDepth
        /\ stack' = Push(stack, state).stack
        /\ UNCHANGED bld
        /\ last' = StackCall("Push", state, NoValue, NilErr,
                             IF Push(stack, state).ok THEN state ELSE NoState)
        /\ UNCHANGED <<structure, history, fatal>>

\* st.Pop()
DoPop ==
    /\ stack' = Pop(stack)
    /\ UNCHANGED bld
    /\ last' = StackCall("Pop", "", NoValue, NilErr,
                         IF Empty(stack) THEN NoState ELSE Peek(stack).state)
    /\ UNCHANGED <<structure, history, fatal>>

\* st.Put(key, value)
DoPut ==
    \E key \in Keys, value \in StoredValues :
        /\ stack' = StackPut(stack, key, value).stack
        /\ UNCHANGED bld
        /\ last' = StackCall("Put", key, value, StackPut(stack, key, value).err, NoValue)
        /\ UNCHANGED <<structure, history, fatal>>

\* st.PutResult(result)
DoPutResult ==
    \E value \in StoredValues :
        /\ stack' = StackPutResult(stack, value).stack
        /\ UNCHANGED bld
        /\ last' = StackCall("PutResult", FsmResultCtxMemberName, value,
                             StackPutResult(stack, value).err, NoValue)
        /\ UNCHANGED <<structure, history, fatal>>

\* st.Raw(key)
DoRaw ==
    \E key \in Keys :
        /\ UNCHANGED bld
        /\ last' = StackCall("Raw", key, NoValue, StackRaw(stack, key).err,
                             StackRaw(stack, key).value)
        /\ UNCHANGED <<structure, stack, history, fatal>>

\* st.Has(key)
DoHas ==
    \E key \in Keys :
        /\ UNCHANGED bld
        /\ last' = StackCall("Has", key, NoValue, NilErr, BoolStr(StackHas(stack, key)))
        /\ UNCHANGED <<structure, stack, history, fatal>>

\* st.Str(key)
DoStr ==
    \E key \in Keys :
        /\ UNCHANGED bld
        /\ last' = StackCall("Str", key, NoValue, StackStr(stack, key).err,
                             StackStr(stack, key).value)
        /\ UNCHANGED <<structure, stack, history, fatal>>

NextStack == DoPush \/ DoPop \/ DoPut \/ DoPutResult \/ DoRaw \/ DoHas \/ DoStr

SpecStack == InitStack /\ [][NextStack]_vars

(***************************************************************************)
(* A Builder in use: FromJsonType with a declaration set, then Structure   *)
(* and Fsm, and Run on the machine Fsm returned.  The order in which Go    *)
(* iterates over the maps of buildStateHierarchy is any order.             *)
(***************************************************************************)
\* a named transition of a declaration
Decl(name, to, guard, action) ==
    [name |-> name, tr |-> JsonTransition(to, guard, JsonAction(action))]

JsonAlways == JsonGuard("always", "", NoValue)

\* hierarchies of three declarations without transitions of their own: parents
\* and start substates that are declared, missing ("x"), the state itself or
\* form a cycle; one, two or no start declaration; "2" may name an action that
\* is not in the map
ShapeStarts == {<<TRUE, FALSE>>, <<FALSE, FALSE>>, <<TRUE, TRUE>>}
ShapeDeclarations ==
    {("0" :> JsonState(s[1], ss0, p0, << >>)) @@ ("1" :> JsonState(s[2], ss1, p1, << >>))
        @@ ("2" :> JsonState(FALSE, ss2, p2, t2)) :
        s \in ShapeStarts, ss0 \in {"", "1"}, p0 \in {"", "2"},
        ss1 \in {"", "2"}, p1 \in {"", "0", "1", "x"},
        ss2 \in {"", "0"}, p2 \in {"", "0", "1"},
        t2 \in {<< >>, << Decl("2-0", "0", JsonAlways, "nope") >>}}

\* flat and nested machines with guards and actions, some of them unknown to
\* the map or incomplete, and a transition to a state that is not declared
FlowTransitions0 ==
    {<< Decl("0-1", "1", JsonAlways, "setk") >>,
     << Decl("0-1", "1", JsonAlways, "nope") >>,
     << Decl("0-1", "1", JsonAlways, ""), Decl("0-2", "2", JsonGuard("context", "k", "a"), "") >>,
     << Decl("0-9", "9", JsonAlways, "") >>}
FlowTransitions1 ==
    {<< >>,
     << Decl("1-2", "2", JsonGuard("context", "k", "a"), "setresult") >>,
     << Decl("1-2", "2", JsonGuard("", "", NoValue), "setresult") >>,
     << Decl("1-2", "2", JsonGuard("bogus", "", NoValue), "") >>,
     << Decl("1-2", "2", JsonGuard("context", "k", NoValue), "") >>}
FlowDeclarations ==
    {("0" :> JsonState(TRUE, "", "", t0)) @@ ("1" :> JsonState(FALSE, "", p1, t1))
        @@ ("2" :> JsonState(FALSE, "", p2, << >>)) :
        t0 \in FlowTransitions0, t1 \in FlowTransitions1, p1 \in {"", "0"}, p2 \in {"", "1"}}

\* "1" and "2" are children of "0"; "1" declares a start substate and "2" may
\* declare one too
SiblingDeclarations ==
    {("0" :> JsonState(TRUE, ss0, "", << >>)) @@ ("1" :> JsonState(FALSE, "3", "0", << >>))
        @@ ("2" :> JsonState(FALSE, ss2, "0", << >>)) @@ ("3" :> JsonState(FALSE, "", p3, << >>)) :
        ss0 \in {"", "1", "2"}, ss2 \in {"", "3"}, p3 \in {"1", "2"}}

\* no declaration at all, a start state alone, a state that is its own parent
SmallDeclarations ==
    {<< >>, ("0" :> JsonState(TRUE, "", "", << >>)), ("0" :> JsonState(FALSE, "", "0", << >>))}

Declarations ==
    ShapeDeclarations \cup FlowDeclarations \cup SiblingDeclarations \cup SmallDeclarations

\* JsonRoot values: with the object "states" or without it
NoRoot == ("none" :> << >>)
Roots == {("states" :> d) : d \in Declarations} \cup {("other" :> << >>)}

\* roots handed to a Builder that already holds states or an error
LaterRoots ==
    {("states" :> ("0" :> JsonState(TRUE, "", "", << Decl("0-1", "1", JsonAlways, "") >>))
                  @@ ("1" :> JsonState(FALSE, "", "", << >>))),
     ("states" :> << >>), ("other" :> << >>)}

\* the orders an iteration over a Go map with the keys S can take
Orders(S) ==
    {f \in [1..Cardinality(S) -> S] : \A i, j \in 1..Cardinality(S) : i # j => f[i] # f[j]}

\* the names declared by a root
Declared(root) == IF "states" \in DOMAIN root THEN DOMAIN root.states ELSE {}

\* FromJsonType returns at once
Loaded(b) == b.err # NilErr \/ ~StructureEmpty(b.fstr)

\* what buildStateHierarchy returned to FromJsonType: start, list and err, with
\* the StateInfo objects made; called is false when it was not reached
NoHierarchy == [called |-> FALSE, start |-> NoState, list |-> {}, heap |-> << >>, err |-> NilErr]
Hierarchy(built) ==
    [called |-> TRUE, start |-> built.start, list |-> built.dest, heap |-> built.heap,
     err |-> built.err]

\* a call on the Builder or on its machine: the root the Builder was loaded
\* from, the error and what else was returned, and the hierarchy a load built
BuilderCall(op, source, err, res, built) ==
    [op |-> op, source |-> source, err |-> err, res |-> res, built |-> built]

InitBuilder ==
    /\ bld = NewBuilder
    /\ structure = NoStructure
    /\ stack = NoFsm.stack
    /\ history = NoFsm.history
    /\ fatal = NoFsm.fatal
    /\ last = BuilderCall("NewBuilder", NoRoot, NilErr, NoValue, NoHierarchy)

\* bld.FromJsonType(root)
BuilderFromJsonType ==
    \E root \in (IF Loaded(bld) THEN LaterRoots ELSE Roots) :
        \E names \in Orders(Declared(root)) :
            \E order \in Orders(1..Len(names)) :
                /\ bld' = FromJsonType(bld, root, names, order)
                /\ last' = BuilderCall("FromJsonType",
                        IF Loaded(bld) THEN last.source ELSE root, NilErr, NoValue,
                        IF Loaded(bld) \/ "states" \notin DOMAIN root THEN NoHierarchy
                        ELSE Hierarchy(buildStateHierarchy(root.states, BuilderActions,
                                                           names, order)))
                /\ UNCHANGED <<structure, stack, history, fatal>>

\* bld.Structure()
BuilderGetStructure ==
    \E verr \in (IF bld.err = NilErr /\ ~StructureEmpty(bld.fstr)
                 THEN Validate(bld.fstr) ELSE {NilErr}) :
        \E r \in {BuilderStructure(bld, verr)} :
            /\ last' = BuilderCall("Structure", last.source, r.err,
                                   IF r.fstr = NoStructure THEN NoValue ELSE "Structure",
                                   NoHierarchy)
            /\ UNCHANGED <<bld, structure, stack, history, fatal>>

\* fsm, err := bld.Fsm(); the machine returned replaces the one held before
BuilderGetFsm ==
    \E verr \in (IF bld.err = NilErr /\ ~StructureEmpty(bld.fstr)
                 THEN Validate(bld.fstr) ELSE {NilErr}) :
        \E r \in {BuilderFsm(bld, verr)} :
            /\ last' = BuilderCall("Fsm", last.source, r.err,
                                   IF r.fsm = NoFsm THEN NoValue ELSE "Fsm", NoHierarchy)
            /\ structure' = IF r.fsm = NoFsm THEN structure ELSE r.fstr
            /\ stack' = IF r.fsm = NoFsm THEN stack ELSE r.fsm.stack
            /\ history' = IF r.fsm = NoFsm THEN history ELSE r.fsm.history
            /\ fatal' = IF r.fsm = NoFsm THEN fatal ELSE r.fsm.fatal
            /\ UNCHANGED bld

\* fsm.Run() on the machine bld.Fsm() returned
BuilderRun ==
    /\ fsm # NoFsm
    /\ \E verr \in (IF Idle(structure, fsm) THEN Validate(structure) ELSE {NilErr}) :
        \E out \in {RunOp(structure, fsm, verr)} :
            /\ out.returned
            /\ stack' = out.fsm.stack
            /\ history' = out.fsm.history
            /\ fatal' = out.fsm.fatal
            /\ last' = BuilderCall("Run", last.source, out.err, out.res, NoHierarchy)
            /\ UNCHANGED <<structure, bld>>

NextBuilder == BuilderFromJsonType \/ BuilderGetStructure \/ BuilderGetFsm \/ BuilderRun

SpecBuilder == InitBuilder /\ [][NextBuilder]_vars

(***************************************************************************)
(* Hierarchy of StateInfo objects.  The objects are the entries of the     *)
(* table structure.states; they start free (no parent, no start substate)  *)
(* and are linked by addSubState.  A state is never linked under one of    *)
(* its own descendants: the callers of addSubState link a state to a state *)
(* made before it.                                                         *)
(***************************************************************************)
HierNames == {"P", "Q", "R", "S"}

\* the transitions "P" is made with
HierTransitions == {<< >>, NewTransitionAlways("P-Q", "Q", NoAction)}

HierTable(trs) ==
    [n \in HierNames |-> NewState(n, IF n = "P" THEN trs ELSE << >>)]

\* no ancestor, as returned for states of disjoint trees
NoAncestor == [ancestor |-> NoState, depth_diff |-> 0]

HierCall(op, si, sub, start, err, res) ==
    [op |-> op, si |-> si, sub |-> sub, start |-> start, err |-> err, res |-> res]

InitHierarchy ==
    /\ structure \in {[states |-> HierTable(trs), start |-> NoState] : trs \in HierTransitions}
    /\ stack = newContextStack
    /\ history = << >>
    /\ fatal = NilErr
    /\ last = HierCall("NewState", NoState, NoState, FALSE, NilErr, NoAncestor)
    /\ bld = NewBuilder

\* si.addSubState(sub, start)
HierAddSubState ==
    \E si \in HierNames, sub \in HierNames, start \in BOOLEAN :
        /\ \A i \in 1..Len(make_path(structure.states, si)) :
                make_path(structure.states, si)[i] # sub
        /\ structure' = [structure EXCEPT
                            !.states = addSubState(structure.states, si, sub, start).states]
        /\ UNCHANGED bld
        /\ last' = HierCall("addSubState", si, sub, start,
                            addSubState(structure.states, si, sub, start).err, NoAncestor)
        /\ UNCHANGED <<stack, history, fatal>>

\* findCommonAncestor(lhs, rhs)
HierFindCommonAncestor ==
    \E lhs \in HierNames, rhs \in HierNames :
        /\ UNCHANGED bld
        /\ last' = HierCall("findCommonAncestor", lhs, rhs, FALSE, NilErr,
                            findCommonAncestor(structure.states, lhs, rhs))
        /\ UNCHANGED <<structure, stack, history, fatal>>

NextHierarchy == HierAddSubState \/ HierFindCommonAncestor

SpecHierarchy == InitHierarchy /\ [][NextHierarchy]_vars

(***************************************************************************)
(* Vocabulary of the properties                                            *)
(***************************************************************************)
\* state at the head of the stack and its transitions
HeadState == Peek(stack).state
HeadTransitions == structure.states[HeadState].Transitions

\* level of a state: number of states on its parent chain, root included
Level(s) == Len(make_path(structure.states, s))

\* the states held by the stack, bottom first
StackStates(st) == [i \in 1..Len(st) |-> st[i].state]

\* number of status predicates that hold
StatusCount ==
    (IF Idle(structure, fsm) THEN 1 ELSE 0) + (IF Running(structure, fsm) THEN 1 ELSE 0)
    + (IF Completed(structure, fsm) THEN 1 ELSE 0) + (IF Fatal(fsm) THEN 1 ELSE 0)

\* the step is a call of Advance / Run / Reset
IsAdvance == last'.op = "Advance"
IsRun == last'.op = "Run"
IsReset == last'.op = "Reset"

C2_FatalAbsorbing ==
    [][Fatal(fsm) =>
        /\ IsAdvance =>
            /\ last'.err = fatal
            /\ last'.err.kind = "ErrFsmInFatalState"
            /\ last'.evaluated = << >>
            /\ last'.executed = << >>
            /\ UNCHANGED <<stack, history, fatal>>
        /\ ~Fatal(fsm') => IsReset]_vars

\* Advance has been called on a Fatal machine whose head state owns an open guard
C2_Witness ==
    /\ Fatal(fsm)
    /\ last.op = "Advance"
    /\ last.err = fatal
    /\ \E i \in 1..Len(HeadTransitions) : EvalGuard(HeadTransitions[i].Guard, stack).open

\* Advance gets as far as the guard loop: the machine is Running, or Idle with
\* a Structure that Validate accepts
Evaluating ==
    \/ Running(structure, fsm)
    \/ Idle(structure, fsm) /\ Validate(structure) = {NilErr}

\* some guard of the head state reports an error on the current stack
GuardErrs ==
    \E i \in 1..Len(HeadTransitions) : EvalGuard(HeadTransitions[i].Guard, stack).err

\* positions of the head state's transitions whose guard is open
OpenSet ==
    {i \in 1..Len(HeadTransitions) : EvalGuard(HeadTransitions[i].Guard, stack).open}

\* the open transition, when there is exactly one
OpenTransition == HeadTransitions[CHOOSE i \in OpenSet : TRUE]

\* the step takes transition tr of the head state: its destination is the new
\* head, its name is appended to the history and returned, only its action ran
Takes(tr) ==
    /\ Peek(stack').state = tr.ToState
    /\ history' = Append(history, HistoryItem(HeadState, tr.ToState, tr.Name))
    /\ last'.step = HistoryItem(HeadState, tr.ToState, tr.Name)
    /\ last'.executed = IF tr.Action = NoAction THEN << >> ELSE << tr.Name >>

\* the step leaves the machine Fatal for a cause of the given kind, returns
\* that cause, and takes no transition
FailsWith(kind) ==
    /\ last'.err.kind = kind
    /\ Fatal(fsm')
    /\ fatal'.inner = kind
    /\ UNCHANGED <<stack, history>>
    /\ last'.executed = << >>

\* C3 as stated: when exactly one guard of the head state is open, Advance
\* takes that transition
C3_OneOpenGuardIsTaken ==
    [][IsAdvance /\ Cardinality(OpenSet) = 1 => Takes(OpenTransition)]_vars

\* C3: when Advance evaluates the guards of the head state, none reports an
\* error, exactly one is open, and its destination is not the root and lies at
\* most one level deeper than the head state, Advance takes that transition
\* whatever its position: the destination becomes the head, its name is
\* recorded in the history, and no action but its own is executed
C3_OneOpenGuardIsTakenWhenEnterable ==
    [][/\ IsAdvance
       /\ Evaluating
       /\ ~GuardErrs
       /\ Cardinality(OpenSet) = 1
       /\ OpenTransition.ToState # FsmGlobalStateName
       /\ Level(OpenTransition.ToState) <= Level(HeadState) + 1
       => Takes(OpenTransition)]_vars

\* Advance took the second transition of a state whose first transition has a
\* closed guard and carries an action; only the second one's action ran
C3_Witness ==
    /\ last.op = "Advance"
    /\ last.err = NilErr
    /\ Len(structure.states[last.step.from].Transitions) >= 2
    /\ structure.states[last.step.from].Transitions[1].Guard = GuardNever
    /\ structure.states[last.step.from].Transitions[1].Action # NoAction
    /\ structure.states[last.step.from].Transitions[2].Name = last.step.transition
    /\ last.executed = << last.step.transition >>
    /\ HeadState = structure.states[last.step.from].Transitions[2].ToState

\* C4: when Advance evaluates the guards of the head state and they are all
\* closed, or more than one of them is open, it takes no transition: it
\* returns a runtime error, the machine becomes Fatal for that cause, and the
\* stack and the history are the same as before the call
C4_NoneOrSeveralOpenIsFatal ==
    [][IsAdvance /\ Evaluating /\ ~GuardErrs /\ Cardinality(OpenSet) # 1
       => FailsWith("ErrFsmRuntime")]_vars

\* Advance found two open guards and stopped the machine
C4_Witness ==
    /\ last.op = "Advance"
    /\ last.err.kind = "ErrFsmRuntime"
    /\ last.err.description = "more than 1 transitions are opened"
    /\ Cardinality(OpenSet) >= 2
    /\ Fatal(fsm)

\* C5: when Advance evaluates the guards of the head state and one of them
\* reports an error, it returns a callback-failed error and the machine
\* becomes Fatal for that cause with stack and history unchanged and no action
\* executed, also when another transition of the state has an open guard
C5_GuardErrorIsFatal ==
    [][IsAdvance /\ Evaluating /\ GuardErrs => FailsWith("ErrFsmCallbackFailed")]_vars

\* Advance stopped the machine on a guard error although another transition of
\* the head state has an open guard
C5_Witness ==
    /\ last.op = "Advance"
    /\ last.err.kind = "ErrFsmCallbackFailed"
    /\ last.err.description = "guard"
    /\ Fatal(fsm)
    /\ GuardErrs
    /\ OpenSet # {}

\* C6: the states held by the stack, read from the bottom to the head, are the
\* parent chain of the head state from the root "global" down to it
C6_StackMirrorsParentChain ==
    StackStates(stack) = make_path(structure.states, HeadState)

\* Advance evaluates the guards of the head state and selects one transition
Selects ==
    IsAdvance /\ Evaluating /\ ~GuardErrs /\ Cardinality(OpenSet) = 1

\* the step enters the destination of tr: it is the new head and the history
\* has the entry of the step, and no runtime error is returned
Enters(tr) ==
    /\ Peek(stack').state = tr.ToState
    /\ history' = Append(history, HistoryItem(HeadState, tr.ToState, tr.Name))
    /\ last'.err.kind # "ErrFsmRuntime"

PutsValue ==
    OpenTransition.Action.kind \in {"put", "putfail"}

\* C8: when Advance takes a transition whose action stores a value with Put,
\* the value is held by the scope of the destination state, which is the new
\* head, and every scope below the new head is as it was before the call: the
\* action wrote to no scope of the departed state
C8_ActionWritesDestinationScope ==
    [][Selects /\ last'.executed # << >> /\ PutsValue =>
        /\ Peek(stack').state = OpenTransition.ToState
        /\ Peek(stack').context[OpenTransition.Action.key] = OpenTransition.Action.value
        /\ Len(stack') - 1 <= Len(stack)
        /\ SubSeq(stack', 1, Len(stack') - 1) = SubSeq(stack, 1, Len(stack') - 1)]_vars

\* Advance went from a state to its substate with a Put action: the value is in
\* the head scope and the scope of the departed state, just below, has no value
C8_Witness ==
    /\ last.op = "Advance"
    /\ last.executed # << >>
    /\ Len(stack) >= 3
    /\ HeadState = last.step.to
    /\ stack[Len(stack) - 1].state = last.step.from
    /\ \E k \in Keys :
        /\ Peek(stack).context[k] # NoValue
        /\ stack[Len(stack) - 1].context[k] = NoValue

\* the action of the selected transition returns an error
ActionErrs ==
    /\ OpenTransition.Action # NoAction
    /\ RunAction(OpenTransition.Action, stack').err

\* C9: when the action of the taken transition returns an error, Advance
\* returns a callback-failed error and the machine becomes Fatal for that
\* cause, with the destination scope at the head and the history entry of the
\* step in place; a Run that ends with such an Advance returns no result and
\* a callback-failed error
C9_ActionErrorIsFatal ==
    [][/\ Selects /\ last'.executed # << >> /\ ActionErrs =>
            /\ last'.err.kind = "ErrFsmCallbackFailed"
            /\ last'.err.description = "entry action"
            /\ Fatal(fsm')
            /\ fatal'.inner = "ErrFsmCallbackFailed"
            /\ Peek(stack').state = OpenTransition.ToState
            /\ history' = Append(history, HistoryItem(HeadState, OpenTransition.ToState,
                                                      OpenTransition.Name))
       /\ IsRun /\ ~Fatal(fsm) /\ Fatal(fsm') /\ fatal'.description = "entry action" =>
            /\ last'.res = NoValue
            /\ last'.err # NilErr
            /\ last'.err.kind = "ErrFsmCallbackFailed"]_vars

\* Run took two transitions, the action of the second failed: no result, an
\* error, a Fatal machine whose head is the destination of the failed step
C9_Witness ==
    /\ last.op = "Run"
    /\ last.res = NoValue
    /\ last.err.kind = "ErrFsmCallbackFailed"
    /\ Fatal(fsm)
    /\ fatal.description = "entry action"
    /\ Len(history) >= 2
    /\ HeadState = history[Len(history)].to
    /\ last.executed # << >>

\* C10: Advance on a Completed machine returns a wrong-flow error and changes
\* nothing: stack, history and the absent fatal error are as before and the
\* machine is still Completed
C10_AdvanceOnCompleted ==
    [][IsAdvance /\ Completed(structure, fsm) =>
        /\ last'.err.kind = "ErrFsmWrongFlow"
        /\ UNCHANGED <<stack, history, fatal>>
        /\ fatal' = NilErr
        /\ Completed(structure, fsm')]_vars

\* Advance has been refused on a Completed machine that made some steps
C10_Witness ==
    /\ last.op = "Advance"
    /\ last.err.kind = "ErrFsmWrongFlow"
    /\ Completed(structure, fsm)
    /\ Len(history) >= 2
    /\ fatal = NilErr

\* the step is a call of Result
IsResult == last'.op = "Result"

\* C11: Result yields a value only on a Completed machine: it then returns
\* the "result" entry of the root scope, or a key-not-found error and no value
\* when the root scope has none; on an Idle, Running or Fatal machine it
\* returns a wrong-flow error and no value; it changes nothing
C11_ResultOnlyWhenCompleted ==
    [][IsResult =>
        /\ UNCHANGED <<stack, history, fatal>>
        /\ Completed(structure, fsm) /\ Global(stack).context[FsmResultCtxMemberName] # NoValue
            => /\ last'.res = Global(stack).context[FsmResultCtxMemberName]
               /\ last'.err = NilErr
        /\ Completed(structure, fsm) /\ Global(stack).context[FsmResultCtxMemberName] = NoValue
            => /\ last'.res = NoValue
               /\ last'.err.kind = "ErrCtxKeyNotFound"
        /\ ~Completed(structure, fsm)
            => /\ last'.res = NoValue
               /\ last'.err.kind = "ErrFsmWrongFlow"]_vars

\* Result has been refused on a Fatal machine whose root scope holds a result
C11_Witness ==
    /\ last.op = "Result"
    /\ last.err.kind = "ErrFsmWrongFlow"
    /\ last.res = NoValue
    /\ Fatal(fsm)
    /\ Global(stack).context[FsmResultCtxMemberName] # NoValue

\* the action of the transition a history item records
HistoryAction(item) ==
    structure.states[item.from].Transitions[
        CHOOSE i \in 1..Len(structure.states[item.from].Transitions) :
            structure.states[item.from].Transitions[i].Name = item.transition].Action

\* the value of the last PutResult among the actions of the steps h[1..idx]
RECURSIVE LastStoredResult(_, _)
LastStoredResult(h, idx) ==
    IF idx < 1 THEN NoValue
    ELSE IF HistoryAction(h[idx]).kind = "result" THEN HistoryAction(h[idx]).value
    ELSE LastStoredResult(h, idx - 1)

\* C12: when Run ends on a Completed machine and some action executed along
\* the path taken stored a result with PutResult, Run returns the value stored
\* last and no error, at whatever depth of the stack the actions ran
C12_RunReturnsLastResult ==
    [][IsRun /\ Completed(structure, fsm') /\ LastStoredResult(history', Len(history')) # NoValue
        => /\ last'.res = LastStoredResult(history', Len(history'))
           /\ last'.err = NilErr]_vars

\* Run made at least three steps down a nested machine and returned the result
\* an action stored while the head was a nested state
C12_Witness ==
    /\ last.op = "Run"
    /\ last.err = NilErr
    /\ last.res # NoValue
    /\ Completed(structure, fsm)
    /\ Depth(stack) >= 4
    /\ HistoryAction(history[Len(history)]).kind = "result"

\* C13: Reset, whatever the status before it, yields an Idle machine with an
\* empty history, no fatal error and a stack of depth one that holds the root
\* state with an empty scope, so that no result is stored any more
C13_ResetYieldsIdle ==
    [][IsReset =>
        /\ Idle(structure, fsm')
        /\ history' = << >>
        /\ fatal' = NilErr
        /\ Depth(stack') = 1
        /\ Peek(stack').state = FsmGlobalStateName
        /\ \A k \in Keys : ~ContextHas(Peek(stack').context, k)
        /\ ~StackHas(stack', FsmResultCtxMemberName)]_vars

\* Reset has been called and the machine is in its initial condition
C13_Witness ==
    /\ last.op = "Reset"
    /\ Idle(structure, fsm)
    /\ stack = << newStateContext(FsmGlobalStateName) >>
    /\ history = << >>
    /\ fatal = NilErr
    /\ Len(structure.states[FsmGlobalStateName].Transitions) > 0

\* C14: Advance never takes a Running, Completed or Fatal machine to Idle and
\* never takes a Completed or Fatal machine to Running; only Reset takes a
\* machine that is not Idle to Idle
C14_StatusMovesForward ==
    [][/\ IsAdvance /\ ~Idle(structure, fsm) => ~Idle(structure, fsm')
       /\ IsAdvance /\ (Completed(structure, fsm) \/ Fatal(fsm)) => ~Running(structure, fsm')
       /\ ~Idle(structure, fsm) /\ Idle(structure, fsm') => IsReset]_vars

\* Advance popped a machine that had made steps down to the root entry and
\* left it Fatal, not Idle
C14_Witness ==
    /\ last.op = "Advance"
    /\ Depth(stack) = FsmAutoStatesCount
    /\ history # << >>
    /\ Fatal(fsm)
    /\ ~Idle(structure, fsm)

\* C15: Advance on an Idle machine whose Structure fails Validate returns a
\* validation error, calls no guard, and leaves the machine Fatal for that
\* cause with the stack at depth one and the history empty
C15_InvalidStructureIsFatal ==
    [][IsAdvance /\ Idle(structure, fsm) /\ Validate(structure) # {NilErr} =>
        /\ last'.err \in Validate(structure)
        /\ last'.err # NilErr
        /\ last'.evaluated = << >>
        /\ last'.executed = << >>
        /\ Fatal(fsm')
        /\ fatal'.inner = last'.err.kind
        /\ fatal'.description = last'.err.description
        /\ UNCHANGED stack
        /\ Depth(stack') = 1
        /\ history' = << >>]_vars

\* Advance refused an invalid Structure although the root state has an open
\* transition to the start state
C15_Witness ==
    /\ last.op = "Advance"
    /\ last.err.kind = "ErrFsmIsInvalid"
    /\ Fatal(fsm)
    /\ fatal.inner = "ErrFsmIsInvalid"
    /\ Depth(stack) = 1
    /\ history = << >>
    /\ OpenSet # {}

\* the step is a call of Structure.Validate
IsValidate == last'.op = "Validate"

\* (a) every transition's target name is a state of the table
TargetsKnown(fstr) ==
    \A s \in DOMAIN fstr.states : \A i \in 1..Len(fstr.states[s].Transitions) :
        fstr.states[s].Transitions[i].ToState \in DOMAIN fstr.states

\* (b) every state other than the root is the target of some transition
AllReferenced(fstr) ==
    \A s \in DOMAIN fstr.states \ {fstr.start} :
        \E s2 \in DOMAIN fstr.states : \E i \in 1..Len(fstr.states[s2].Transitions) :
            fstr.states[s2].Transitions[i].ToState = s

\* (c) source and target of every transition have a common ancestor: their
\* parent chains start at the same state
ShareAncestor(fstr) ==
    \A s \in DOMAIN fstr.states : \A i \in 1..Len(fstr.states[s].Transitions) :
        fstr.states[s].Transitions[i].ToState \in DOMAIN fstr.states =>
            make_path(fstr.states, s)[1] =
                make_path(fstr.states, fstr.states[s].Transitions[i].ToState)[1]

\* every state of the table passes StateInfo.Validate
StatesValid(fstr) ==
    \A s \in DOMAIN fstr.states : StateValidate(fstr.states, s) = NilErr

Unreferenced(fstr) ==
    {s \in DOMAIN fstr.states \ {fstr.start} :
        \A s2 \in DOMAIN fstr.states \ {s} :
            /\ fstr.states[s2].StartSubState # s
            /\ \A i \in 1..Len(fstr.states[s2].Transitions) :
                fstr.states[s2].Transitions[i].ToState # s}

\* C17: Validate fails for every Structure with a non-root state that no other
\* state refers to, a state referred to only by its own transitions included
C17_UnreferencedStateRejected ==
    [][IsValidate /\ Unreferenced(structure) # {} => last'.err # NilErr]_vars

\* positions of the scopes of the stack that hold the key
Holders(st, key) == {i \in 1..Len(st) : st[i].context[key] # NoValue}

\* the value of the holder nearest to the head
NearestValue(st, key) ==
    st[CHOOSE i \in Holders(st, key) : \A j \in Holders(st, key) : j <= i].context[key]

\* C18: a lookup on the stack (Raw, Has, the typed accessor Str) changes
\* nothing and answers from the scope nearest to the head that holds the key:
\* Raw returns its value, Has returns true, Str returns it when it is a string
\* and an invalid-type error otherwise; key-not-found (false for Has) is
\* reported exactly when no scope of the stack holds the key
C18_LookupNearestScope ==
    [][last'.op \in {"Raw", "Has", "Str"} =>
        /\ UNCHANGED stack
        /\ last'.op = "Raw" /\ Holders(stack, last'.arg) # {}
            => last'.err = NilErr /\ last'.res = NearestValue(stack, last'.arg)
        /\ last'.op = "Has"
            => last'.res = BoolStr(Holders(stack, last'.arg) # {})
        /\ last'.op = "Str" /\ Holders(stack, last'.arg) # {}
            => IF NearestValue(stack, last'.arg) \in Values
               THEN last'.err = NilErr /\ last'.res = NearestValue(stack, last'.arg)
               ELSE last'.err.kind = "ErrCtxInvalidType"
        /\ last'.op \in {"Raw", "Str"}
            => (last'.err.kind = "ErrCtxKeyNotFound" <=> Holders(stack, last'.arg) = {})]_vars

\* Raw on a stack of three scopes: the head does not hold the key, the middle
\* scope and the root hold different values, and the middle one is returned
C18_Witness ==
    /\ last.op = "Raw"
    /\ Depth(stack) = 3
    /\ stack[3].context[last.arg] = NoValue
    /\ stack[2].context[last.arg] # NoValue
    /\ stack[1].context[last.arg] # NoValue
    /\ stack[1].context[last.arg] # stack[2].context[last.arg]
    /\ last.res = stack[2].context[last.arg]
    /\ last.err = NilErr

\* C19: Put on a stack that is not empty writes the given key of the head
\* scope and PutResult writes the "result" key of the outermost scope, whatever
\* the depth; every other scope and every other key is as before, and so are
\* the states and the depth of the stack
C19_PutWritesOneEntry ==
    [][last'.op \in {"Put", "PutResult"} /\ ~Empty(stack) =>
        /\ last'.err = NilErr
        /\ Len(stack') = Len(stack)
        /\ \A i \in 1..Len(stack) :
            /\ stack'[i].state = stack[i].state
            /\ \A k \in Keys :
                stack'[i].context[k] =
                    IF /\ k = last'.arg
                       /\ i = (IF last'.op = "Put" THEN Len(stack) ELSE 1)
                    THEN last'.value
                    ELSE stack[i].context[k]]_vars

\* PutResult on a stack of three scopes wrote the root scope; the head scope
\* holds another value under "result", written by Put
C19_Witness ==
    /\ last.op = "PutResult"
    /\ Depth(stack) = 3
    /\ stack[1].context[FsmResultCtxMemberName] = last.value
    /\ stack[3].context[FsmResultCtxMemberName] # NoValue
    /\ stack[3].context[FsmResultCtxMemberName] # last.value
    /\ stack[2].context[FsmResultCtxMemberName] = NoValue

\* C20: Push of the state already at the head, or of nil, returns nil and
\* leaves the depth and the contents of the stack unchanged
C20_PushDuplicateIsNoOp ==
    [][/\ last'.op = "Push"
       /\ \/ last'.arg = NoState
          \/ ~Empty(stack) /\ Peek(stack).state = last'.arg
       => last'.res = NoState /\ UNCHANGED stack]_vars

\* the state at the head was pushed again: nil was returned and the head scope
\* still holds its value
C20_Witness ==
    /\ last.op = "Push"
    /\ last.res = NoState
    /\ Depth(stack) >= 2
    /\ last.arg = Peek(stack).state
    /\ \E k \in Keys : Peek(stack).context[k] # NoValue

\* C21: Advance, Run and Reset leave the Structure as it is: the same names in
\* the table, and for every state the same parent, start substate and
\* transition list
C21_StructureUnchanged ==
    [][IsAdvance \/ IsRun \/ IsReset =>
        /\ DOMAIN structure'.states = DOMAIN structure.states
        /\ structure'.start = structure.start
        /\ \A s \in DOMAIN structure.states :
            /\ structure'.states[s].Parent = structure.states[s].Parent
            /\ structure'.states[s].StartSubState = structure.states[s].StartSubState
            /\ structure'.states[s].Transitions = structure.states[s].Transitions]_vars

\* Reset has been called on a machine over a nested Structure, which still
\* has its six states, its parent links and the start state of the root
C21_Witness ==
    /\ last.op = "Reset"
    /\ Cardinality(DOMAIN structure.states) = 6
    /\ structure.states[FsmGlobalStateName].StartSubState = "A"
    /\ structure.states["A11"].Parent = "A1"
    /\ Len(structure.states["A"].Transitions) = 1

\* the call made by the step is AddState or AddStartState
IsAddCall == last'.op \in {"AddState", "AddStartState"}

\* the checks of AddStartState that come before the lookup of the name refuse
\* the call: the root already has its start state and no parent is given, or
\* the parent given is registered and has transitions
StartRefused(fstr, parent) ==
    \/ parent = NoState /\ ~Final(fstr.states[fstr.start])
    \/ parent # NoState /\ parent \in DOMAIN fstr.states
        /\ Len(fstr.states[parent].Transitions) > 0

C23_OneTopLevelStartState ==
    [][/\ last'.op = "AddStartState"
       /\ last'.parent = NoState
       /\ structure.states[FsmGlobalStateName].StartSubState # NoState
       => /\ last'.err # NilErr
          /\ last'.err.kind = "ErrFsmIsInvalid"
          /\ structure'.states = structure.states
          /\ Len(structure'.states[FsmGlobalStateName].Transitions) = 1
          /\ structure'.states[FsmGlobalStateName].Transitions[1].ToState =
                structure.states[FsmGlobalStateName].StartSubState]_vars

\* a second AddStartState with no parent was refused, for a state that is not
\* in the table, and the root still starts in another state
C23_Witness ==
    /\ last.op = "AddStartState"
    /\ last.parent = NoState
    /\ last.err # NilErr
    /\ last.err.kind = "ErrFsmIsInvalid"
    /\ last.state \notin DOMAIN structure.states
    /\ structure.states[FsmGlobalStateName].StartSubState \notin {NoState, last.state}
    /\ structure.states[FsmGlobalStateName].Transitions[1].ToState =
        structure.states[FsmGlobalStateName].StartSubState

\* the call made by the step adds states to the Structure of the machine
IsAddStates == last'.op \in {"AddState", "AddStartState", "AddStates"}

\* C29 (as stated): adding a state (AddState, AddStartState or AddStates) to a
\* machine that is not Idle fails with a wrong-flow error and adds nothing to
\* the state table.
C29_AddToNonIdleIsWrongFlow ==
    [][IsAddStates /\ ~Idle(structure, fsm) =>
        /\ last'.err # NilErr
        /\ last'.err.kind = "ErrFsmWrongFlow"
        /\ DOMAIN structure'.states = DOMAIN structure.states]_vars

\* C30 (as stated): whenever Run returns while the machine is Fatal, it
\* returns a nil result and a non-nil error, whether the failure happened
\* during this Run or the machine was already Fatal when Run was called.
C30_RunOnFatalReturnsError ==
    [][IsRun /\ Fatal(fsm') => last'.res = NoValue /\ last'.err # NilErr]_vars

\* --- Builder ---------------------------------------------------------------
\* the step is a FromJsonType that read the declarations of its root
IsLoad == last'.op = "FromJsonType" /\ ~Loaded(bld) /\ "states" \in DOMAIN last'.source

\* the declarations the Builder was loaded from
Source == IF "states" \in DOMAIN last.source THEN last.source.states ELSE << >>

\* the dependencies of a declaration set: n depends on its declared parent,
\* and the start substate a declaration names depends on that declaration
Depends(d) ==
    {<<n, d[n].Parent>> : n \in {m \in DOMAIN d : d[m].Parent \in DOMAIN d}}
    \cup {<<d[n].StartSubState, n>> : n \in {m \in DOMAIN d : d[m].StartSubState \in DOMAIN d}}

\* names that n depends on, directly or through others
RECURSIVE DependsUpon(_, _, _)
DependsUpon(d, found, k) ==
    IF k = 0 THEN found
    ELSE DependsUpon(d, found \cup {e[2] : e \in {x \in Depends(d) : x[1] \in found}}, k - 1)

Ancestors(d, n) ==
    DependsUpon(d, {e[2] : e \in {x \in Depends(d) : x[1] = n}}, Cardinality(DOMAIN d))

\* the dependencies contain a cycle
Cycled(d) == \E n \in DOMAIN d : n \in Ancestors(d, n)

\* a declaration that JsonState.StateInfo refuses whatever its parent is: a
\* start substate together with transitions, or a transition with an action
\* that is not in the map, an unknown guard type or an incomplete guard
Defective(js) ==
    IF js.StartSubState # "" THEN Len(js.Transitions) > 0
    ELSE StateInfoTransitions(js.Transitions, 1, BuilderActions, << >>).err # NilErr

Defects(d) == {n \in DOMAIN d : Defective(d[n])}

Starts(d) == {n \in DOMAIN d : d[n].Start}

\* the call made by the step asks the Builder for its Structure or its Fsm
IsGet == last'.op \in {"Structure", "Fsm"}

C26_DeclaredParentsMaterialised ==
    [][IsLoad /\ last'.built.err = NilErr =>
        \A n \in DOMAIN last'.source.states :
            /\ n \in DOMAIN last'.built.heap
            /\ (n = last'.built.start) # (n \in last'.built.list)
            /\ last'.built.heap[n].Name = n
            /\ last'.built.heap[n].Parent =
                IF last'.source.states[n].Parent = "" THEN NoState
                ELSE last'.source.states[n].Parent]_vars

\* Validate refuses the Structure the Builder holds
ValidateFails(b) == b.err = NilErr /\ ~StructureEmpty(b.fstr) /\ NilErr \notin Validate(b.fstr)

\* C27: Structure and Fsm return an error and no Structure or Fsm whenever
\* loading failed or the Structure built fails Validate; an error the Builder
\* has recorded is the one every later call returns, and a later FromJsonType
\* changes nothing in a Builder that holds an error or states.
C27_FailedBuilderGivesNothing ==
    [][/\ IsGet /\ (bld.err # NilErr \/ ValidateFails(bld)) =>
            /\ last'.err # NilErr
            /\ last'.res = NoValue
            /\ UNCHANGED <<bld, structure, stack, history, fatal>>
       /\ IsGet /\ bld.err # NilErr => last'.err = bld.err
       /\ last'.op = "FromJsonType" /\ Loaded(bld) => UNCHANGED bld]_vars

\* Fsm returned nothing but the error recorded by a load that failed for an
\* action that is not in the map, in a set with one start declaration and
\* without a cycle
C27_Witness ==
    /\ last.op = "Fsm"
    /\ last.res = NoValue
    /\ last.err = bld.err
    /\ bld.err = newFsmErrorInvalid("action was not found in the map")
    /\ ~Cycled(Source)
    /\ Cardinality(Starts(Source)) = 1
    /\ fsm = NoFsm

\* The Structure assembled by hand from a declaration set with the calls of
\* the Structure API: the start state with AddStartState, then every other
\* state under its declared parent with AddState, parents before children.
\* A declared start substate is the unconditional transition to it.
HandState(name, js) ==
    NewState(name,
        IF js.StartSubState # ""
        THEN NewTransitionAlways("Always " \o name \o "->" \o js.StartSubState,
                                 js.StartSubState, NoAction)
        ELSE StateInfoTransitions(js.Transitions, 1, BuilderActions, << >>).trs)

\* declared states that can be added: not in the table, their parent is
Addable(fstr, d) ==
    {n \in DOMAIN d \ DOMAIN fstr.states :
        d[n].Parent = "" \/ d[n].Parent \in DOMAIN fstr.states}

RECURSIVE HandAddStates(_, _)
HandAddStates(fstr, d) ==
    IF Addable(fstr, d) = {} THEN fstr
    ELSE HandAddStates(
            AddState(fstr, HandState(CHOOSE n \in Addable(fstr, d) : TRUE,
                                     d[CHOOSE n \in Addable(fstr, d) : TRUE]),
                     IF d[CHOOSE n \in Addable(fstr, d) : TRUE].Parent = "" THEN NoState
                     ELSE d[CHOOSE n \in Addable(fstr, d) : TRUE].Parent).fstr,
            d)

HandAssembled(d) ==
    HandAddStates(
        AddStartState(NewStructure,
            HandState(CHOOSE n \in Starts(d) : TRUE, d[CHOOSE n \in Starts(d) : TRUE]),
            NoState).fstr,
        d)

\* how a Run ended: the status of the machine, the result and the kind of error
RunEnd(fstr, machine, res, err) ==
    [status |-> IF Fatal(machine) THEN "Fatal"
                ELSE IF Completed(fstr, machine) THEN "Completed"
                ELSE IF Running(fstr, machine) THEN "Running" ELSE "Idle",
     res |-> res, kind |-> err.kind]

\* the ways Run can end on a new machine over fstr
RunEnds(fstr) ==
    {RunEnd(fstr, RunOp(fstr, NewFsm(fstr), verr).fsm, RunOp(fstr, NewFsm(fstr), verr).res,
            RunOp(fstr, NewFsm(fstr), verr).err) : verr \in Validate(fstr)}

\* C28 (as stated): for identical declarations, the machine built by the
\* Builder and the machine over the Structure assembled by hand end Run in the
\* same status, with the same result or the same kind of error.
C28_BuiltRunsAsHandAssembled ==
    [][last'.op = "Run" /\ Idle(structure, fsm) =>
        RunEnd(structure', fsm', last'.res, last'.err) \in RunEnds(HandAssembled(Source))]_vars

\* the selected destination lies at most one level deeper than the head state
\* and the selected transition has no action or an action that succeeds
Enterable ==
    /\ Level(OpenTransition.ToState) <= Level(HeadState) + 1
    /\ ~ActionErrs

\* C31: in a Structure accepted by Validate, when Advance evaluates the guards
\* of the head state, exactly one is open, its destination is at most one
\* level deeper than the head state and its action, if any, succeeds, Advance
\* returns no error, the destination becomes the head of the stack and exactly
\* one entry is appended to the history, for every destination the Structure
\* allows, the head state itself and the root "global" included
C31_EnterableDestinationIsEntered ==
    [][Selects /\ Enterable =>
        /\ last'.err = NilErr
        /\ Peek(stack').state = OpenTransition.ToState
        /\ Len(history') = Len(history) + 1
        /\ SubSeq(history', 1, Len(history)) = history]_vars

\* the root scope holds a value under the result key
RootHoldsResult(st) ==
    ContextHas(Global(st).context, FsmResultCtxMemberName)

\* C32: in every reachable state of the Fsm the stack is non-empty and its
\* bottom entry is the root "global"; no call but Reset takes away the root
\* scope, so a value stored with PutResult stays in the root scope and is
\* readable through the stack until Reset
C32_RootScopeStays ==
    /\ [](~Empty(stack) /\ Global(stack).state = FsmGlobalStateName)
    /\ [][~IsReset /\ RootHoldsResult(stack) =>
            /\ RootHoldsResult(stack')
            /\ StackHas(stack', FsmResultCtxMemberName)]_vars

\* Advance has ascended to a state two levels or more above the one it left,
\* and the result an earlier action stored is in the root scope
C32_Witness ==
    /\ last.op = "Advance"
    /\ last.err = NilErr
    /\ Level(last.step.from) >= Level(last.step.to) + 2
    /\ RootHoldsResult(stack)
    /\ Depth(stack) > FsmAutoStatesCount

\* C33: in every reachable state of an Fsm over a validated Structure, the
\* depth of the ContextStack equals the level of the head state in the
\* hierarchy: the number of states on the parent chain from the root to the
\* head state, both included
C33_DepthIsLevelOfHead ==
    Validate(structure) = {NilErr} => Depth(stack) = Level(HeadState)

\* Advance has moved into another branch of a validated Structure: the stack
\* is as deep as the chain of the new head, and holds a state that is not on it
C33_Witness ==
    /\ Validate(structure) = {NilErr}
    /\ last.op = "Advance"
    /\ last.err = NilErr
    /\ Depth(stack) = Level(HeadState)
    /\ Depth(stack) >= 3
    /\ StackStates(stack) # make_path(structure.states, HeadState)

\* the entries of h are chained: the first one leaves the root, and each one
\* arrives where the next one leaves
Chained(h) ==
    /\ h # << >> => h[1].from = FsmGlobalStateName
    /\ \A i \in 1..(Len(h) - 1) : h[i].to = h[i + 1].from

\* C34: the history is append-only and chained: Advance never removes or
\* alters an entry and appends at most one entry per call; the first entry
\* leaves the root "global", the to-state of each entry is the from-state of
\* the next, and while the machine is not Fatal the to-state of the last entry
\* names the state at the head of the stack
C34_HistoryAppendOnlyChained ==
    /\ [](/\ Chained(history)
          /\ ~Fatal(fsm) /\ history # << >> => history[Len(history)].to = HeadState)
    /\ [][IsAdvance =>
            /\ Len(history') <= Len(history) + 1
            /\ SubSeq(history', 1, Len(history)) = history]_vars

\* Advance has appended a fourth entry to the history of a machine that is
\* not Fatal, after a step that left a state for a state of a higher level
C34_Witness ==
    /\ last.op = "Advance"
    /\ Len(history) >= 4
    /\ last.step = history[Len(history)]
    /\ ~Fatal(fsm)
    /\ \E i \in 1..(Len(history) - 1) : Level(history[i].to) < Level(history[i].from)

\* the states some transition of a state of S leads to
Destinations(fstr, S) ==
    {t \in DOMAIN fstr.states :
        \E s \in S \cap DOMAIN fstr.states :
            \E i \in 1..Len(fstr.states[s].Transitions) :
                fstr.states[s].Transitions[i].ToState = t}

\* the states a chain of at most n + 1 transitions from a state of S leads to
RECURSIVE EnteredFrom(_, _, _)
EnteredFrom(fstr, S, n) ==
    IF n <= 0 THEN Destinations(fstr, S)
    ELSE Destinations(fstr, S \cup EnteredFrom(fstr, S, n - 1))

\* the transitions form no cycle: no chain of transitions comes back to the
\* state it left
NoCycle(fstr) ==
    \A s \in DOMAIN fstr.states :
        s \notin EnteredFrom(fstr, {s}, Cardinality(DOMAIN fstr.states))

\* C35: for a Structure whose transitions form no cycle, Run terminates after
\* at most as many calls of Advance as the Structure has states, and on return
\* the machine is Completed or Fatal
C35_RunEndsWithinStateCount ==
    NoCycle(structure) =>
        \A verr \in (IF Idle(structure, fsm) THEN Validate(structure) ELSE {NilErr}) :
            /\ RunOp(structure, fsm, verr).returned
            /\ RunOp(structure, fsm, verr).calls <= Cardinality(DOMAIN structure.states)
            /\ \/ Completed(structure, RunOp(structure, fsm, verr).fsm)
               \/ Fatal(RunOp(structure, fsm, verr).fsm)

\* Run has returned on a Structure without cycle after it entered five
\* states, one after the other
C35_Witness ==
    /\ NoCycle(structure)
    /\ last.op = "Run"
    /\ Len(history) >= 5
    /\ Completed(structure, fsm) \/ Fatal(fsm)

\* the step is a call of addSubState
IsAddSubState == last'.op = "addSubState"

\* C36: addSubState(parent, child, isStart) fails with a state-is-invalid
\* error when the child already has a parent, when isStart is requested and
\* the parent already has a start substate, and when isStart is requested and
\* the parent already owns transitions; in the first two cases the child is not
\* adopted (in the first one its parent stays the one it had)
C36_AddSubStateRefusals ==
    [][IsAddSubState =>
        /\ structure.states[last'.sub].Parent # NoState =>
            /\ last'.err.kind = "ErrStateIsInvalid"
            /\ structure'.states[last'.sub].Parent = structure.states[last'.sub].Parent
        /\ last'.start /\ structure.states[last'.si].StartSubState # NoState =>
            /\ last'.err.kind = "ErrStateIsInvalid"
            /\ structure'.states[last'.sub].Parent = structure.states[last'.sub].Parent
        /\ last'.start /\ Len(structure.states[last'.si].Transitions) > 0 =>
            last'.err.kind = "ErrStateIsInvalid"]_vars

\* addSubState has refused a free child as a second start substate of a
\* parent, and the child is still free
C36_Witness ==
    /\ last.op = "addSubState"
    /\ last.start
    /\ last.err.kind = "ErrStateIsInvalid"
    /\ structure.states[last.si].StartSubState \notin {NoState, last.sub}
    /\ structure.states[last.sub].Parent = NoState

\* the hierarchy held by a Structure: the names of the table with, for every
\* state, its parent link, its start substate link and its transitions
HierarchyOf(fstr) ==
    [n \in DOMAIN fstr.states |->
        <<fstr.states[n].Parent, fstr.states[n].StartSubState, fstr.states[n].Transitions>>]

\* C37: a hierarchy-building call that returns an error leaves the hierarchy
\* unchanged: after a failed AddState or AddStartState the state table holds
\* the same names as before, and no state's parent link, start substate link
\* or transition list has been altered
C37_FailedCallLeavesHierarchy ==
    [][IsAddCall /\ last'.err # NilErr => HierarchyOf(structure') = HierarchyOf(structure)]_vars

\* the states on the chain of parent links that starts at s, s included
RECURSIVE ChainOf(_, _)
ChainOf(states, s) ==
    IF s = NoState THEN {} ELSE {s} \cup ChainOf(states, states[s].Parent)

\* the level of s: the number of states on its chain
ChainLevel(states, s) == Cardinality(ChainOf(states, s))

\* the deepest state on the chains of both lhs and rhs, if there is one
DeepestCommon(states, lhs, rhs) ==
    IF ChainOf(states, lhs) \cap ChainOf(states, rhs) = {} THEN NoState
    ELSE CHOOSE c \in ChainOf(states, lhs) \cap ChainOf(states, rhs) :
            \A d \in ChainOf(states, lhs) \cap ChainOf(states, rhs) :
                ChainLevel(states, d) <= ChainLevel(states, c)

\* C38: findCommonAncestor(lhs, rhs) returns the deepest state lying on both
\* root-to-node parent chains: the state itself when lhs = rhs, the ancestor
\* when one input is an ancestor of the other, and no ancestor when the two
\* states belong to disjoint trees; the depth difference returned is
\* level(lhs) minus level(rhs), so swapping the arguments keeps the ancestor
\* and negates the difference
C38_CommonAncestorIsDeepest ==
    last.op = "findCommonAncestor" =>
        /\ last.res.ancestor = DeepestCommon(structure.states, last.si, last.sub)
        /\ last.si = last.sub => last.res.ancestor = last.si
        /\ last.si \in ChainOf(structure.states, last.sub) => last.res.ancestor = last.si
        /\ last.sub \in ChainOf(structure.states, last.si) => last.res.ancestor = last.sub
        /\ ChainOf(structure.states, last.si) \cap ChainOf(structure.states, last.sub) = {}
            => last.res.ancestor = NoState
        /\ last.res.depth_diff =
            ChainLevel(structure.states, last.si) - ChainLevel(structure.states, last.sub)
        /\ findCommonAncestor(structure.states, last.sub, last.si).ancestor = last.res.ancestor
        /\ findCommonAncestor(structure.states, last.sub, last.si).depth_diff =
            0 - last.res.depth_diff

\* findCommonAncestor was called for two states neither of which is an
\* ancestor of the other, and returned a state below the root of their tree
C38_Witness ==
    /\ last.op = "findCommonAncestor"
    /\ last.res.ancestor \notin {NoState, last.si, last.sub}
    /\ structure.states[last.res.ancestor].Parent # NoState

\* the names whose declaration names a start substate
Delegating(d) == {n \in DOMAIN d : d[n].StartSubState # ""}

\* C39: for every declaration accepted by the Builder that names a start
\* substate s, the state made has exactly one transition, unconditional and
\* targeting s, and its start substate link designates s and no other state;
\* a declaration that names a start substate and also lists transitions is
\* rejected
C39_StartSubStateMaterialised ==
    [][IsLoad =>
        /\ bld'.err = NilErr =>
            \A n \in Delegating(last'.source.states) :
                /\ Len(last'.built.heap[n].Transitions) = 1
                /\ last'.built.heap[n].Transitions[1].Guard = GuardAlways
                /\ last'.built.heap[n].Transitions[1].ToState =
                    last'.source.states[n].StartSubState
                /\ last'.built.heap[n].StartSubState = last'.source.states[n].StartSubState
        /\ (\E n \in Delegating(last'.source.states) :
                Len(last'.source.states[n].Transitions) > 0)
            => last'.built.err # NilErr /\ bld'.err # NilErr]_vars

\* C40: the outcome of buildStateHierarchy depends only on the set of
\* declarations and not on the order in which the declaration map is
\* iterated: for every iteration order it either fails, or yields the same
\* start state and, for every state, the same parent, the same start substate
\* link and the same transitions
C40_HierarchyIndependentOfOrder ==
    last.op = "FromJsonType" /\ last.built.called /\ last.built.err = NilErr =>
        \A names \in Orders(DOMAIN Source) :
            \A order \in Orders(1..Len(names)) :
                \A other \in {buildStateHierarchy(Source, BuilderActions, names, order)} :
                    other.err = NilErr =>
                        /\ other.start = last.built.start
                        /\ other.dest = last.built.list
                        /\ other.heap = last.built.heap

====
